---- MODULE Spec2Model ----
(***************************************************************************)
(* Model of the aurora board-configuration tools:                          *)
(*   - schemas/board-v1.0.0.ts      (BoardConfigSchema and its refinement)  *)
(*   - scripts/validate-pin-uniqueness.ts   (validatePinUniqueness)        *)
(*   - schemas/config-v1.0.0.ts     (FinalConfigSchema, SensorBoardSchema) *)
(*   - scripts/migrate-to-board-products.ts (the migration builder)        *)
(*   - the configuration generator (main, loadBoardConfig,                 *)
(*     loadSensorBoards)                                                   *)
(* Records are TLA+ functions from key names to values, so that            *)
(* `"pin" in sensor` is `"pin" \in DOMAIN sensor`.  A JavaScript Map is a   *)
(* sequence of entries in insertion order, an array is a sequence.         *)
(***************************************************************************)
EXTENDS Integers, Sequences, FiniteSets, TLC

VARIABLES
    board,      \* the board record read from boards/<id>.json
    otherBoard, \* a second, independent board of the catalog
    loaded,     \* outcome of loadBoardConfig / BoardConfigSchema.parse
    callArg,    \* products argument of the latest validatePinUniqueness call
    earlierPins,\* history: the pins claimed in the calls before the latest
    pinUsage,   \* the call's pinUsage Map as it stands at return
    allPins,    \* the call's allPins array as it stands at return
    report,     \* the ValidationResult returned by the latest call
    schema,     \* name of the schema a record is handed to
    candidate,  \* the record handed to schema.parse
    parsed,     \* outcome of schema.parse(candidate)
    reparsed,   \* outcome of parsing the validated result once more
    skuMappings,   \* the legacy catalog read from sku-mappings.json
    boardProducts, \* the migration's mapping from board to new products
    migration,     \* how the migration script ended
    migratedFile,  \* boards/IS-3R-WL-V5-migrated.json as last written
    pc,            \* the place of main: the pending prompt, or "exit"
    answers,       \* main's locals that hold the answers to the prompts
    capabilities,  \* main's local `capabilities`
    sensorBoardDir,\* the files of sensor-boards/ as loadSensorBoards read them
    sensorBoards,  \* main's local `compatibleSensorBoards`, while in scope
    applied,       \* history: the sensor board whose flags were applied
    finalConfig,   \* main's local `finalConfig`
    exit,          \* whether the process has ended, and its exit code
    files          \* the contents of the config-<timestamp>.txt files written

pinVars ==
    <<board, otherBoard, loaded, callArg, earlierPins, pinUsage, allPins,
      report>>

schemaVars == <<schema, candidate, parsed, reparsed>>

migrationVars == <<skuMappings, boardProducts, migration, migratedFile>>

mainVars ==
    <<pc, answers, capabilities, sensorBoardDir, sensorBoards, applied,
      finalConfig, exit, files>>

vars == <<pinVars, schemaVars, migrationVars, mainVars>>

\* the variables of the parts of the program a run does not enter
NotParsed == [status |-> "none"]

SchemaIdle ==
    /\ schema = "none"
    /\ candidate = <<>>
    /\ parsed = NotParsed
    /\ reparsed = NotParsed

NotMigrated == [status |-> "none"]

MigrationIdle ==
    /\ skuMappings = [products |-> <<>>]
    /\ boardProducts = <<>>
    /\ migration = NotMigrated
    /\ migratedFile = <<>>

Running == [status |-> "running"]

Exited(code, reason) ==
    [status |-> "exited", code |-> code, reason |-> reason]

NotApplied == [status |-> "none"]

MainIdle ==
    /\ pc = "idle"
    /\ answers = <<>>
    /\ capabilities = <<>>
    /\ sensorBoardDir = <<>>
    /\ sensorBoards = <<>>
    /\ applied = NotApplied
    /\ finalConfig = <<>>
    /\ exit = Running
    /\ files = <<>>

(***************************************************************************)
(* Bounds of the explored inputs.                                          *)
(***************************************************************************)
MaxPin == 2
MaxProducts == 2
MaxComponents == 2
MaxCallComponents == 1
MaxCallProducts == 2
MaxSchemaPin == 1
MaxExcess == 1
MaxLegacyProducts == 2
MaxCompatibleBoards == 2
MaxSensorBoards == 2

Pins == 1..MaxPin

(***************************************************************************)
(* Component records, shaped as the schemas of board-v1.0.0.ts shape them. *)
(***************************************************************************)
HeatingRelay(k, p) ==
    [id |-> "heater_" \o ToString(k), pin |-> p, wattage |-> 1600]

LightingRelay(k, p) ==
    [id |-> "lights_" \o ToString(k), pin |-> p, type |-> "dimmable"]

I2CSensor == [id |-> "mlx90614", type |-> "mlx90614", address |-> 90]

UARTSensor(tx, rx) ==
    [id |-> "ld2410", type |-> "ld2410", uart_port |-> 1,
     tx_pin |-> tx, rx_pin |-> rx]

UARTSensorOut(tx, rx, out) ==
    [id |-> "ld2410", type |-> "ld2410", uart_port |-> 1,
     tx_pin |-> tx, rx_pin |-> rx, out_pin |-> out]

AnalogSensor(p) == [id |-> "lm35_main", type |-> "lm35", pin |-> p]

Led(p) == [id |-> "pairing_led", pin |-> p, type |-> "status"]

Button(p) == [id |-> "pairing_button", pin |-> p, type |-> "pairing"]

\* the pin after p on the ring 1..MaxPin
NextPin(p) == (p % MaxPin) + 1

\* the sensors explored: one I2C sensor, an analog sensor on any pin, and
\* UART sensors whose tx, rx and out pins follow each other on the ring
Sensors ==
    {I2CSensor}
    \cup {AnalogSensor(p) : p \in Pins}
    \cup {UARTSensor(p, NextPin(p)) : p \in Pins}
    \cup {UARTSensorOut(p, NextPin(p), NextPin(NextPin(p))) : p \in Pins}

(***************************************************************************)
(* Input generation: a board is built from at most MaxComponents           *)
(* component placements.  Owner 0 is the board itself (shared sensors,     *)
(* LEDs and buttons), owner i >= 1 is the i-th product.                    *)
(***************************************************************************)
SharedComponents ==
    {[cat |-> "sensor", item |-> s] : s \in Sensors}
    \cup {[cat |-> "led", item |-> Led(p)] : p \in Pins}
    \cup {[cat |-> "button", item |-> Button(p)] : p \in Pins}

ProductComponents ==
    SharedComponents
    \cup {[cat |-> "heating", item |-> HeatingRelay(1, p)] : p \in Pins}
    \cup {[cat |-> "lighting", item |-> LightingRelay(1, p)] : p \in Pins}

Placements(n, withShared) ==
    {[owner |-> i, comp |-> c] : i \in 1..n, c \in ProductComponents}
    \cup (IF withShared
          THEN {[owner |-> 0, comp |-> c] : c \in SharedComponents}
          ELSE {})

\* position of a component list in a board file: owner first, then category
ListRank(q) ==
    5 * q.owner
    + (CASE q.comp.cat = "heating" -> 1
         [] q.comp.cat = "lighting" -> 2
         [] q.comp.cat = "sensor" -> 3
         [] q.comp.cat = "led" -> 4
         [] q.comp.cat = "button" -> 5)

\* placement sequences, list by list: only the order of the placements
\* that go to the same list matters to the board built from them
PlacementSeqs(n, withShared, maxLen) ==
    {ps \in UNION {[1..k -> Placements(n, withShared)] : k \in 0..maxLen} :
        \A k \in 1..(Len(ps) - 1) : ListRank(ps[k]) <= ListRank(ps[k + 1])}

\* the items placed on one owner in one category, in placement order;
\* relays are numbered heater_1, heater_2, ... by position
Items(ps, i, cat) ==
    LET sel == SelectSeq(ps, LAMBDA q : q.owner = i /\ q.comp.cat = cat)
    IN  [k \in 1..Len(sel) |->
            IF cat = "heating" THEN HeatingRelay(k, sel[k].comp.item.pin)
            ELSE IF cat = "lighting"
                 THEN LightingRelay(k, sel[k].comp.item.pin)
                 ELSE sel[k].comp.item]

Sku(i) == "SKU-" \o ToString(i)

MkProduct(ps, i) ==
    [sku |-> Sku(i), variant |-> "standard", name |-> "Halo",
     heatingRelays |-> Items(ps, i, "heating"),
     lightingRelays |-> Items(ps, i, "lighting"),
     sensors |-> Items(ps, i, "sensor"),
     leds |-> Items(ps, i, "led"),
     buttons |-> Items(ps, i, "button")]

MkProducts(ps, n) == [i \in 1..n |-> MkProduct(ps, i)]

\* an optional key is present only when something was placed under it
Optional(key, val) == IF val = <<>> THEN <<>> ELSE (key :> val)

MkBoard(ps, n, i2c) ==
    [boardType |-> "IS-3R", boardVersion |-> "V2",
     module |-> [chip |-> "ESP32-C6", flash_size_mb |-> 8],
     i2c |-> i2c,
     products |-> MkProducts(ps, n)]
    @@ Optional("sensors", Items(ps, 0, "sensor"))
    @@ Optional("leds", Items(ps, 0, "led"))
    @@ Optional("buttons", Items(ps, 0, "button"))

\* the I2C bus of the explored boards
I2CBus == [sda |-> 1, scl |-> 2, port |-> 1]

\* a board with one product that has one heating relay
DefaultBoard ==
    MkBoard(<<[owner |-> 1,
               comp |-> [cat |-> "heating", item |-> HeatingRelay(1, 1)]]>>,
            1, I2CBus)

\* boards without shared peripherals, checked one after the other
CallBoards ==
    UNION {{MkBoard(ps, n, I2CBus) :
               ps \in PlacementSeqs(n, FALSE, MaxCallComponents)} :
           n \in 1..MaxCallProducts}

\* boards with one product that has one component
OtherBoards ==
    {MkBoard(<<[owner |-> 1, comp |-> c]>>, 1, I2CBus) :
        c \in ProductComponents}

(***************************************************************************)
(* scripts/validate-pin-uniqueness.ts                                      *)
(***************************************************************************)
\* `key in record && typeof record[key] === "number"`
HasNumber(record, key) == key \in DOMAIN record /\ record[key] \in Int

\* `record[key] || []` for an optional array
OrEmpty(record, key) == IF key \in DOMAIN record THEN record[key] ELSE <<>>

\* fault: the Map is created once and kept from one call to the next
StalePinUsage == pinUsage

\* const pinUsage = new Map()
NewPinUsage == <<>>

\* const allPins: number[] = []
NewAllPins == <<>>

\* pinUsage.has(pin)
Has(usage, pin) == \E i \in 1..Len(usage) : usage[i].pin = pin

\* fault: a new pin's entry goes to the front of the Map
RecordClaimFront(st, pin, sku, label) ==
    LET usage == IF Has(st.pinUsage, pin)
                 THEN st.pinUsage
                 ELSE <<[pin |-> pin, products |-> <<>>,
                         components |-> <<>>]>> \o st.pinUsage
    IN  [allPins |-> Append(st.allPins, pin),
         pinUsage |->
            [i \in 1..Len(usage) |->
                IF usage[i].pin = pin
                THEN [usage[i] EXCEPT
                        !.products = Append(@, sku),
                        !.components = Append(@, label)]
                ELSE usage[i]]]

\* one claim: allPins.push(pin); create the Map entry when the pin is new;
\* push the sku and the label onto the entry
RecordClaim(st, pin, sku, label) ==
    LET usage == IF Has(st.pinUsage, pin)
                 THEN st.pinUsage
                 ELSE Append(st.pinUsage,
                             [pin |-> pin, products |-> <<>>,
                              components |-> <<>>])
    IN  [allPins |-> Append(st.allPins, pin),
         pinUsage |->
            [i \in 1..Len(usage) |->
                IF usage[i].pin = pin
                THEN [usage[i] EXCEPT
                        !.products = Append(@, sku),
                        !.components = Append(@, label)]
                ELSE usage[i]]]

\* the claims of one sensor, in the order of the four `if` blocks
SensorClaims(sku, sensor) ==
    (IF HasNumber(sensor, "pin")
     THEN <<[pin |-> sensor.pin,
             label |-> sku \o ":sensor:" \o sensor.id]>>
     ELSE <<>>)
    \o (IF HasNumber(sensor, "tx_pin")
        THEN <<[pin |-> sensor.tx_pin,
                label |-> sku \o ":sensor:" \o sensor.id \o ":tx"]>>
        ELSE <<>>)
    \o (IF HasNumber(sensor, "rx_pin")
        THEN <<[pin |-> sensor.rx_pin,
                label |-> sku \o ":sensor:" \o sensor.id \o ":rx"]>>
        ELSE <<>>)
    \o (IF HasNumber(sensor, "out_pin")
        THEN <<[pin |-> sensor.out_pin,
                label |-> sku \o ":sensor:" \o sensor.id \o ":out"]>>
        ELSE <<>>)

RECURSIVE Flatten(_)
Flatten(seqs) ==
    IF seqs = <<>> THEN <<>> ELSE Head(seqs) \o Flatten(Tail(seqs))

\* the claims of one product, in the order of the five loops of the body
ProductClaims(product) ==
    [k \in 1..Len(product.heatingRelays) |->
        [pin |-> product.heatingRelays[k].pin,
         label |-> product.sku \o ":heating:"
                   \o product.heatingRelays[k].id]]
    \o [k \in 1..Len(product.lightingRelays) |->
        [pin |-> product.lightingRelays[k].pin,
         label |-> product.sku \o ":lighting:"
                   \o product.lightingRelays[k].id]]
    \o Flatten([k \in 1..Len(OrEmpty(product, "sensors")) |->
                    SensorClaims(product.sku, product.sensors[k])])
    \o [k \in 1..Len(OrEmpty(product, "leds")) |->
        [pin |-> product.leds[k].pin,
         label |-> product.sku \o ":led:" \o product.leds[k].id]]
    \o [k \in 1..Len(OrEmpty(product, "buttons")) |->
        [pin |-> product.buttons[k].pin,
         label |-> product.sku \o ":button:" \o product.buttons[k].id]]

RECURSIVE RecordClaims(_, _, _)
RecordClaims(st, sku, claims) ==
    IF claims = <<>> THEN st
    ELSE RecordClaims(RecordClaim(st, Head(claims).pin, sku,
                                  Head(claims).label),
                      sku, Tail(claims))

\* for (const product of products) { ... }
RECURSIVE WalkProducts(_, _)
WalkProducts(st, products) ==
    IF products = <<>> THEN st
    ELSE WalkProducts(RecordClaims(st, Head(products).sku,
                                   ProductClaims(Head(products))),
                      Tail(products))

\* [...new Set(xs)]: the first occurrence of each value, in order
RECURSIVE Dedupe(_)
Dedupe(xs) ==
    IF xs = <<>> THEN <<>>
    ELSE LET front == Dedupe(SubSeq(xs, 1, Len(xs) - 1))
             last == xs[Len(xs)]
         IN  IF \E i \in 1..Len(front) : front[i] = last
             THEN front ELSE Append(front, last)

\* fault: usage.products.length > 0
IsConflictAnyClaim(usage) == Len(usage.products) > 0

\* fault: new Set(usage.products).size > 1
IsConflictDistinctSkus(usage) == Len(Dedupe(usage.products)) > 1

\* usage.products.length > 1
IsConflict(usage) == Len(usage.products) > 1

\* fault: products: usage.products
ConflictProductsRaw(usage) == usage.products

\* products: [...new Set(usage.products)]
ConflictProducts(usage) == Dedupe(usage.products)

\* for (const [pin, usage] of pinUsage) if (...) conflicts.push({...})
RECURSIVE FindConflicts(_)
FindConflicts(usage) ==
    IF usage = <<>> THEN <<>>
    ELSE (IF IsConflict(Head(usage))
          THEN <<[pin |-> Head(usage).pin,
                  products |-> ConflictProducts(Head(usage)),
                  components |-> Head(usage).components]>>
          ELSE <<>>)
         \o FindConflicts(Tail(usage))

\* xs.sort((a, b) => a - b): a stable sort by the sign of a - b
RECURSIVE SortNumeric(_)
SortNumeric(xs) ==
    IF xs = <<>> THEN <<>>
    ELSE LET rest == SortNumeric(Tail(xs))
             x == Head(xs)
             le == SelectSeq(rest, LAMBDA y : y - x < 0)
             gt == SelectSeq(rest, LAMBDA y : ~(y - x < 0))
         IN  le \o <<x>> \o gt

\* fault: the sort is left out
UnsortedPins(pins) == Dedupe(pins)

\* allPins: [...new Set(allPins)].sort((a, b) => a - b)
SortedPins(pins) == SortNumeric(Dedupe(pins))

\* isValid: conflicts.length === 0
IsValid(conflicts) == Len(conflicts) = 0

NoReport == [status |-> "none"]

validatePinUniqueness(products) ==
    LET st == WalkProducts([pinUsage |-> NewPinUsage,
                            allPins |-> NewAllPins], products)
        conflicts == FindConflicts(st.pinUsage)
    IN  [st |-> st,
         result |-> [status |-> "returned",
                     isValid |-> IsValid(conflicts),
                     conflicts |-> conflicts,
                     allPins |-> SortedPins(st.allPins)]]

(***************************************************************************)
(* schemas/board-v1.0.0.ts: each schema is the predicate "parse succeeds". *)
(* Every object schema carries .catchall(z.unknown()), so keys beyond the  *)
(* declared ones never cause a rejection.                                  *)
(***************************************************************************)
IsString(v) == v \in STRING
IsInteger(v) == v \in Int
IsPositiveInteger(v) == v \in Int /\ v > 0
HasKeys(record, keys) == keys \subseteq DOMAIN record
All(xs, Schema(_)) == \A k \in 1..Len(xs) : Schema(xs[k])

MaxHeatingRelays == 3
MaxLightingRelays == 2

BoardModuleSchema(m) ==
    /\ HasKeys(m, {"chip", "flash_size_mb"})
    /\ IsString(m.chip)
    /\ IsPositiveInteger(m.flash_size_mb)

HeatingRelaySchema(r) ==
    /\ HasKeys(r, {"id", "pin", "wattage"})
    /\ IsString(r.id)
    /\ IsPositiveInteger(r.pin)
    /\ IsInteger(r.wattage) /\ r.wattage >= 0

LightingRelaySchema(r) ==
    /\ HasKeys(r, {"id", "pin", "type"})
    /\ IsString(r.id)
    /\ IsPositiveInteger(r.pin)
    /\ r.type \in {"dimmable", "rgb", "warmth", "regular"}

I2CSensorConfigSchema(s) ==
    /\ HasKeys(s, {"id", "type", "address"})
    /\ IsString(s.id)
    /\ s.type \in {"mlx90614", "bme688", "sht41"}
    /\ IsInteger(s.address)

UARTSensorConfigSchema(s) ==
    /\ HasKeys(s, {"id", "type", "uart_port", "tx_pin", "rx_pin"})
    /\ IsString(s.id)
    /\ s.type \in {"ld2410"}
    /\ IsInteger(s.uart_port)
    /\ IsInteger(s.tx_pin)
    /\ IsInteger(s.rx_pin)
    /\ ("out_pin" \in DOMAIN s => IsInteger(s.out_pin))

AnalogSensorConfigSchema(s) ==
    /\ HasKeys(s, {"id", "type", "pin"})
    /\ IsString(s.id)
    /\ s.type \in {"lm35"}
    /\ IsPositiveInteger(s.pin)

SensorConfigSchema(s) ==
    \/ I2CSensorConfigSchema(s)
    \/ UARTSensorConfigSchema(s)
    \/ AnalogSensorConfigSchema(s)

LedConfigSchema(l) ==
    /\ HasKeys(l, {"id", "pin", "type"})
    /\ IsString(l.id)
    /\ IsPositiveInteger(l.pin)
    /\ l.type \in {"status", "indicator", "ambient"}

ButtonConfigSchema(b) ==
    /\ HasKeys(b, {"id", "pin", "type"})
    /\ IsString(b.id)
    /\ IsPositiveInteger(b.pin)
    /\ b.type \in {"pairing", "switch", "reset"}

\* fault: the lengths are compared with >= 0
ProductHasComponentOrNone(data) ==
    \/ Len(data.heatingRelays) >= 0
    \/ Len(data.lightingRelays) >= 0
    \/ Len(data.sensors) >= 0
    \/ Len(data.leds) >= 0
    \/ Len(data.buttons) >= 0

\* the .refine of ProductSchema: at least one component
ProductHasComponent(data) ==
    \/ Len(data.heatingRelays) > 0
    \/ Len(data.lightingRelays) > 0
    \/ Len(data.sensors) > 0
    \/ Len(data.leds) > 0
    \/ Len(data.buttons) > 0

ProductSchema(p) ==
    /\ HasKeys(p, {"sku", "variant", "name", "heatingRelays",
                   "lightingRelays", "sensors", "leds", "buttons"})
    /\ IsString(p.sku) /\ IsString(p.variant) /\ IsString(p.name)
    /\ Len(p.heatingRelays) <= MaxHeatingRelays
    /\ All(p.heatingRelays, HeatingRelaySchema)
    /\ Len(p.lightingRelays) <= MaxLightingRelays
    /\ All(p.lightingRelays, LightingRelaySchema)
    /\ All(p.sensors, SensorConfigSchema)
    /\ All(p.leds, LedConfigSchema)
    /\ All(p.buttons, ButtonConfigSchema)
    /\ ProductHasComponent(p)

I2CBusConfigSchema(b) ==
    /\ HasKeys(b, {"sda", "scl", "port"})
    /\ IsPositiveInteger(b.sda)
    /\ IsPositiveInteger(b.scl)
    /\ IsPositiveInteger(b.port)

\* the pins one sensor adds to the refinement's allPins
SensorPins(sensor) ==
    (IF HasNumber(sensor, "pin") THEN <<sensor.pin>> ELSE <<>>)
    \o (IF HasNumber(sensor, "tx_pin") THEN <<sensor.tx_pin>> ELSE <<>>)
    \o (IF HasNumber(sensor, "rx_pin") THEN <<sensor.rx_pin>> ELSE <<>>)
    \o (IF HasNumber(sensor, "out_pin") THEN <<sensor.out_pin>> ELSE <<>>)

PinsOf(xs) == [k \in 1..Len(xs) |-> xs[k].pin]

\* fault: the loop over data.leds is left out
SharedPinsNoLeds(data) ==
    Flatten([k \in 1..Len(OrEmpty(data, "sensors")) |->
                SensorPins(data.sensors[k])])
    \o PinsOf(OrEmpty(data, "buttons"))

\* "Collect pins from shared board components"
SharedPins(data) ==
    Flatten([k \in 1..Len(OrEmpty(data, "sensors")) |->
                SensorPins(data.sensors[k])])
    \o PinsOf(OrEmpty(data, "leds"))
    \o PinsOf(OrEmpty(data, "buttons"))

\* fault: the loop over product.leds is left out
ProductPinsNoLeds(product) ==
    PinsOf(product.heatingRelays)
    \o PinsOf(product.lightingRelays)
    \o Flatten([k \in 1..Len(product.sensors) |->
                    SensorPins(product.sensors[k])])
    \o PinsOf(product.buttons)

\* the body of `for (const product of data.products)`
ProductPins(product) ==
    PinsOf(product.heatingRelays)
    \o PinsOf(product.lightingRelays)
    \o Flatten([k \in 1..Len(product.sensors) |->
                    SensorPins(product.sensors[k])])
    \o PinsOf(product.leds)
    \o PinsOf(product.buttons)

\* the allPins array of the refinement
BoardPins(data) ==
    SharedPins(data)
    \o Flatten([i \in 1..Len(data.products) |->
                    ProductPins(data.products[i])])

\* const uniquePins = new Set(allPins); uniquePins.size === allPins.length
AllUnique(pins) ==
    Cardinality({pins[k] : k \in 1..Len(pins)}) = Len(pins)

\* the .refine of BoardConfigSchema
BoardPinsUnique(data) == AllUnique(BoardPins(data))

\* the z.object part of BoardConfigSchema
BoardShape(b) ==
    /\ HasKeys(b, {"boardType", "boardVersion", "module", "i2c", "products"})
    /\ IsString(b.boardType) /\ IsString(b.boardVersion)
    /\ BoardModuleSchema(b.module)
    /\ ("aliases" \in DOMAIN b => All(b.aliases, IsString))
    /\ I2CBusConfigSchema(b.i2c)
    /\ ("sensors" \in DOMAIN b => All(b.sensors, SensorConfigSchema))
    /\ ("leds" \in DOMAIN b => All(b.leds, LedConfigSchema))
    /\ ("buttons" \in DOMAIN b => All(b.buttons, ButtonConfigSchema))
    /\ Len(b.products) >= 1
    /\ All(b.products, ProductSchema)

BoardConfigSchema(b) == BoardShape(b) /\ BoardPinsUnique(b)

(***************************************************************************)
(* The state machine.                                                      *)
(***************************************************************************)
NotLoaded == [status |-> "none"]

Init ==
    /\ \E n \in 0..MaxProducts :
          \E ps \in PlacementSeqs(n, TRUE, MaxComponents) :
             board = MkBoard(ps, n, I2CBus)
    /\ otherBoard = DefaultBoard
    /\ loaded = NotLoaded
    /\ callArg = <<>>
    /\ earlierPins = {}
    /\ pinUsage = <<>>
    /\ allPins = <<>>
    /\ report = NoReport
    /\ SchemaIdle
    /\ MigrationIdle
    /\ MainIdle

\* loadBoardConfig: BoardConfigSchema.parse(data) returns the data or throws
LoadBoardConfig ==
    /\ loaded' = IF BoardConfigSchema(board)
                 THEN [status |-> "ok", data |-> board]
                 ELSE [status |-> "error"]
    /\ UNCHANGED <<board, otherBoard, callArg, earlierPins, pinUsage,
                   allPins, report>>
    /\ UNCHANGED <<schemaVars, migrationVars, mainVars>>

\* one call validatePinUniqueness(products)
ValidatePinUniqueness(products) ==
    LET call == validatePinUniqueness(products)
    IN  /\ callArg' = products
        /\ pinUsage' = call.st.pinUsage
        /\ allPins' = call.st.allPins
        /\ report' = call.result

\* printPinReport(products) on the products of the board at hand
PrintPinReport ==
    /\ ValidatePinUniqueness(board.products)
    /\ UNCHANGED <<board, otherBoard, loaded, earlierPins>>
    /\ UNCHANGED <<schemaVars, migrationVars, mainVars>>

Next == LoadBoardConfig \/ PrintPinReport

Spec == Init /\ [][Next]_vars

\* a caller that checks the product lists of two boards, in any order and
\* any number of times
InitCalls ==
    /\ board \in CallBoards
    /\ otherBoard \in OtherBoards
    /\ loaded = NotLoaded
    /\ callArg = <<>>
    /\ earlierPins = {}
    /\ pinUsage = <<>>
    /\ allPins = <<>>
    /\ report = NoReport
    /\ SchemaIdle
    /\ MigrationIdle
    /\ MainIdle

CheckBoard(b) ==
    /\ ValidatePinUniqueness(b.products)
    /\ earlierPins' = earlierPins \cup {allPins[k] : k \in 1..Len(allPins)}
    /\ UNCHANGED <<board, otherBoard, loaded>>
    /\ UNCHANGED <<schemaVars, migrationVars, mainVars>>

CheckFirstBoard == CheckBoard(board)

CheckSecondBoard == CheckBoard(otherBoard)

NextCalls == CheckFirstBoard \/ CheckSecondBoard

SpecCalls == InitCalls /\ [][NextCalls]_vars

(***************************************************************************)
(* schemas/config-v1.0.0.ts and schemas/sensor-board-v1.0.0.ts.  The       *)
(* component schemas and ProductSchema of config-v1.0.0.ts repeat those of *)
(* board-v1.0.0.ts word for word, so the definitions above stand for both. *)
(***************************************************************************)
FinalConfigSchema(c) ==
    /\ HasKeys(c, {"configVersion", "sku", "boardType", "boardVersion",
                   "batchDate", "provisioningKey", "provisioningSecret",
                   "module", "i2c", "product"})
    /\ IsString(c.configVersion) /\ IsString(c.sku)
    /\ IsString(c.boardType) /\ IsString(c.boardVersion)
    /\ IsString(c.batchDate)
    /\ IsString(c.provisioningKey) /\ IsString(c.provisioningSecret)
    /\ BoardModuleSchema(c.module)
    /\ I2CBusConfigSchema(c.i2c)
    /\ ProductSchema(c.product)

SensorFlags ==
    {"has_mlx90614", "has_bme688", "has_sht41", "has_ld2410_uart",
     "has_ld2410_binary"}

SensorBoardCapabilitiesSchema(c) ==
    /\ HasKeys(c, SensorFlags)
    /\ \A f \in SensorFlags : c[f] \in BOOLEAN
    /\ ("has_sensor_led" \in DOMAIN c => c.has_sensor_led \in BOOLEAN)
    /\ ("has_gnd_sw_mosfet" \in DOMAIN c => c.has_gnd_sw_mosfet \in BOOLEAN)
    /\ ("gnd_sw_gpio" \in DOMAIN c => IsInteger(c.gnd_sw_gpio))

SensorBoardSchema(b) ==
    /\ HasKeys(b, {"sku", "name", "compatibleBoards", "capabilities"})
    /\ IsString(b.sku) /\ IsString(b.name)
    /\ All(b.compatibleBoards, IsString)
    /\ SensorBoardCapabilitiesSchema(b.capabilities)

(***************************************************************************)
(* What parse returns for an accepted record.  A z.object builds a new     *)
(* record from the declared keys that are present, each with the output of *)
(* its own schema, and .catchall(z.unknown()) adds every other key with    *)
(* its value as it is.  A z.union returns the output of the first member   *)
(* that accepts.                                                           *)
(***************************************************************************)
\* fault: a z.object without .catchall drops the undeclared keys
StrippedKeys(rec, declared) == {}

CatchallKeys(rec, declared) == DOMAIN rec \ declared

ObjectOutput(rec, declared, Field(_, _)) ==
    [k \in (DOMAIN rec \cap declared) \cup CatchallKeys(rec, declared) |->
        IF k \in declared THEN Field(k, rec[k]) ELSE rec[k]]

ArrayOutput(xs, Element(_)) == [k \in 1..Len(xs) |-> Element(xs[k])]

\* z.string(), z.number(), z.enum(...) and z.boolean() return their input
ScalarOutput(k, v) == v

HeatingRelayOutput(r) ==
    ObjectOutput(r, {"id", "pin", "wattage"}, ScalarOutput)

LightingRelayOutput(r) ==
    ObjectOutput(r, {"id", "pin", "type"}, ScalarOutput)

SensorConfigOutput(s) ==
    IF I2CSensorConfigSchema(s)
    THEN ObjectOutput(s, {"id", "type", "address"}, ScalarOutput)
    ELSE IF UARTSensorConfigSchema(s)
    THEN ObjectOutput(s, {"id", "type", "uart_port", "tx_pin", "rx_pin",
                          "out_pin"}, ScalarOutput)
    ELSE ObjectOutput(s, {"id", "type", "pin"}, ScalarOutput)

LedConfigOutput(l) == ObjectOutput(l, {"id", "pin", "type"}, ScalarOutput)

ButtonConfigOutput(b) == ObjectOutput(b, {"id", "pin", "type"}, ScalarOutput)

ProductField(k, v) ==
    CASE k = "heatingRelays" -> ArrayOutput(v, HeatingRelayOutput)
      [] k = "lightingRelays" -> ArrayOutput(v, LightingRelayOutput)
      [] k = "sensors" -> ArrayOutput(v, SensorConfigOutput)
      [] k = "leds" -> ArrayOutput(v, LedConfigOutput)
      [] k = "buttons" -> ArrayOutput(v, ButtonConfigOutput)
      [] OTHER -> v

ProductOutput(p) ==
    ObjectOutput(p, {"sku", "variant", "name", "heatingRelays",
                     "lightingRelays", "sensors", "leds", "buttons"},
                 ProductField)

BoardModuleOutput(m) ==
    ObjectOutput(m, {"chip", "flash_size_mb"}, ScalarOutput)

I2CBusConfigOutput(b) ==
    ObjectOutput(b, {"sda", "scl", "port"}, ScalarOutput)

BoardConfigField(k, v) ==
    CASE k = "module" -> BoardModuleOutput(v)
      [] k = "i2c" -> I2CBusConfigOutput(v)
      [] k = "sensors" -> ArrayOutput(v, SensorConfigOutput)
      [] k = "leds" -> ArrayOutput(v, LedConfigOutput)
      [] k = "buttons" -> ArrayOutput(v, ButtonConfigOutput)
      [] k = "products" -> ArrayOutput(v, ProductOutput)
      [] OTHER -> v

BoardConfigOutput(b) ==
    ObjectOutput(b, {"boardType", "boardVersion", "module", "aliases",
                     "i2c", "sensors", "leds", "buttons", "products"},
                 BoardConfigField)

FinalConfigField(k, v) ==
    CASE k = "module" -> BoardModuleOutput(v)
      [] k = "i2c" -> I2CBusConfigOutput(v)
      [] k = "product" -> ProductOutput(v)
      [] OTHER -> v

FinalConfigOutput(c) ==
    ObjectOutput(c, {"configVersion", "sku", "boardType", "boardVersion",
                     "batchDate", "provisioningKey", "provisioningSecret",
                     "module", "i2c", "product"},
                 FinalConfigField)

SensorBoardCapabilitiesOutput(c) ==
    ObjectOutput(c, SensorFlags \cup {"has_sensor_led", "has_gnd_sw_mosfet",
                                      "gnd_sw_gpio"}, ScalarOutput)

SensorBoardField(k, v) ==
    IF k = "capabilities" THEN SensorBoardCapabilitiesOutput(v) ELSE v

SensorBoardOutput(b) ==
    ObjectOutput(b, {"sku", "name", "compatibleBoards", "capabilities"},
                 SensorBoardField)

SchemaNames == {"Product", "Board", "FinalConfig", "SensorBoard"}

Accepts(name, v) ==
    CASE name = "Product" -> ProductSchema(v)
      [] name = "Board" -> BoardConfigSchema(v)
      [] name = "FinalConfig" -> FinalConfigSchema(v)
      [] name = "SensorBoard" -> SensorBoardSchema(v)

Output(name, v) ==
    CASE name = "Product" -> ProductOutput(v)
      [] name = "Board" -> BoardConfigOutput(v)
      [] name = "FinalConfig" -> FinalConfigOutput(v)
      [] name = "SensorBoard" -> SensorBoardOutput(v)

\* schema.parse(v): the output, or a thrown ZodError
SchemaParse(name, v) ==
    IF Accepts(name, v)
    THEN [status |-> "ok", data |-> Output(name, v)]
    ELSE [status |-> "error"]

(***************************************************************************)
(* Records handed to the schemas: products whose component lists run from  *)
(* empty to one relay past the schema's limit, components whose pin fields *)
(* run over PinValues, I2C buses over PinValues, sensor boards over every  *)
(* setting of the five flags, each with and without undeclared keys.       *)
(***************************************************************************)
PinValues == -1..MaxSchemaPin

HeatingList(n) == [k \in 1..n |-> HeatingRelay(k, k)]

LightingList(n) ==
    [k \in 1..n |-> LightingRelay(k, MaxHeatingRelays + MaxExcess + k)]

HeatingLists ==
    {HeatingList(n) : n \in 0..(MaxHeatingRelays + MaxExcess)}
    \cup {<<HeatingRelay(1, p)>> : p \in PinValues}

LightingLists ==
    {LightingList(n) : n \in 0..(MaxLightingRelays + MaxExcess)}
    \cup {<<LightingRelay(1, p)>> : p \in PinValues}

SchemaSensors ==
    {I2CSensor}
    \cup {AnalogSensor(p) : p \in PinValues}
    \cup {UARTSensor(tx, rx) : tx \in PinValues, rx \in PinValues}
    \cup {UARTSensorOut(1, 1, out) : out \in PinValues}

SensorLists == {<<>>} \cup {<<s>> : s \in SchemaSensors}

LedLists == {<<>>} \cup {<<Led(p)>> : p \in PinValues}

ButtonLists == {<<>>} \cup {<<Button(p)>> : p \in PinValues}

ProductOf(hs, ls, ss, ds, bs) ==
    [sku |-> Sku(1), variant |-> "standard", name |-> "Halo",
     heatingRelays |-> hs, lightingRelays |-> ls, sensors |-> ss,
     leds |-> ds, buttons |-> bs]

PlainProduct == ProductOf(HeatingList(1), <<>>, <<>>, <<>>, <<>>)

I2CBuses ==
    {I2CBus} \cup {[sda |-> a, scl |-> b, port |-> 1] :
                      a \in PinValues, b \in PinValues}

BoardOf(product, i2c) ==
    [boardType |-> "IS-3R", boardVersion |-> "V2",
     module |-> [chip |-> "ESP32-C6", flash_size_mb |-> 8],
     i2c |-> i2c,
     products |-> <<product>>]

FinalConfigOf(product, i2c) ==
    [configVersion |-> "1.0.0", sku |-> product.sku,
     boardType |-> "IS-3R", boardVersion |-> "V2", batchDate |-> "250926",
     provisioningKey |-> "key", provisioningSecret |-> "secret",
     module |-> [chip |-> "ESP32-C6", flash_size_mb |-> 8],
     i2c |-> i2c,
     product |-> product]

SensorBoardOf(flags, boards) ==
    [sku |-> "SB-1", name |-> "Sensor board",
     compatibleBoards |-> boards, capabilities |-> flags]

\* a key no schema declares
Note(rec) == rec @@ ("note" :> "kept")

Notes(xs) == [k \in 1..Len(xs) |-> Note(xs[k])]

NotedProduct(p) ==
    Note(ProductOf(Notes(p.heatingRelays), Notes(p.lightingRelays),
                   Notes(p.sensors), Notes(p.leds), Notes(p.buttons)))

\* the record of schema `name` built around a product, a bus and flags
CandidateOf(name, product, i2c, flags, noted) ==
    LET p == IF noted THEN NotedProduct(product) ELSE product
        bus == IF noted THEN Note(i2c) ELSE i2c
        caps == IF noted THEN Note(flags) ELSE flags
        v == CASE name = "Product" -> p
               [] name = "Board" -> BoardOf(p, bus)
               [] name = "FinalConfig" -> FinalConfigOf(p, bus)
               [] name = "SensorBoard" -> SensorBoardOf(caps, <<"IS-3R">>)
    IN  IF noted THEN Note(v) ELSE v

AllOff == [f \in SensorFlags |-> FALSE]

PinIdle ==
    /\ board = DefaultBoard
    /\ otherBoard = DefaultBoard
    /\ loaded = NotLoaded
    /\ callArg = <<>>
    /\ earlierPins = {}
    /\ pinUsage = <<>>
    /\ allPins = <<>>
    /\ report = NoReport

InitSchema ==
    /\ PinIdle
    /\ schema \in SchemaNames
    /\ \E noted \in BOOLEAN :
          \/ /\ schema # "SensorBoard"
             /\ \E hs \in HeatingLists, ls \in LightingLists,
                   ss \in SensorLists, ds \in LedLists, bs \in ButtonLists :
                   candidate = CandidateOf(schema,
                                           ProductOf(hs, ls, ss, ds, bs),
                                           I2CBus, AllOff, noted)
          \/ /\ schema \in {"Board", "FinalConfig"}
             /\ \E i2c \in I2CBuses :
                   candidate = CandidateOf(schema, PlainProduct, i2c,
                                           AllOff, noted)
          \/ /\ schema = "SensorBoard"
             /\ \E flags \in [SensorFlags -> BOOLEAN] :
                   candidate = CandidateOf(schema, PlainProduct, I2CBus,
                                           flags, noted)
    /\ parsed = NotParsed
    /\ reparsed = NotParsed
    /\ MigrationIdle
    /\ MainIdle

\* schema.parse(candidate)
ParseCandidate ==
    /\ parsed = NotParsed
    /\ parsed' = SchemaParse(schema, candidate)
    /\ UNCHANGED <<schema, candidate, reparsed>>
    /\ UNCHANGED <<pinVars, migrationVars, mainVars>>

\* schema.parse of what the first parse returned
ParseAgain ==
    /\ parsed.status = "ok"
    /\ reparsed = NotParsed
    /\ reparsed' = SchemaParse(schema, parsed.data)
    /\ UNCHANGED <<schema, candidate, parsed>>
    /\ UNCHANGED <<pinVars, migrationVars, mainVars>>

NextSchema == ParseCandidate \/ ParseAgain

SpecSchema == InitSchema /\ [][NextSchema]_vars

(***************************************************************************)
(* scripts/migrate-to-board-products.ts.  The null of a pinout slot is the *)
(* number Null, which no GPIO carries.  A property read on the undefined   *)
(* that BOARD_PINOUTS[boardType] gives for an unlisted board throws a      *)
(* TypeError, which ends the script.                                       *)
(***************************************************************************)
Null == -1

BOARD_PINOUTS ==
    ("IS-3R-WL-V5" :>
        [heater_relay_1 |-> 18, heater_relay_2 |-> 19, heater_relay_3 |-> 20,
         lights_relay_1 |-> 4, lights_relay_2 |-> 5])
    @@ ("IS-3R-WL-V3" :>
        [heater_relay_1 |-> 18, heater_relay_2 |-> 19, heater_relay_3 |-> 20,
         lights_relay_1 |-> 4, lights_relay_2 |-> 5])
    @@ ("IS-3R-V2" :>
        [heater_relay_1 |-> 18, heater_relay_2 |-> 19, heater_relay_3 |-> 20,
         lights_relay_1 |-> Null, lights_relay_2 |-> Null])
    @@ ("IS-3R-V1" :>
        [heater_relay_1 |-> 18, heater_relay_2 |-> 19, heater_relay_3 |-> 20,
         lights_relay_1 |-> Null, lights_relay_2 |-> Null])
    @@ ("IS-1R-V2" :>
        [heater_relay_1 |-> 18, heater_relay_2 |-> Null,
         heater_relay_3 |-> Null,
         lights_relay_1 |-> Null, lights_relay_2 |-> Null])

\* String.prototype.includes
Includes(s, sub) ==
    \E i \in 1..(Len(s) - Len(sub) + 1) :
       SubSeq(s, i, i + Len(sub) - 1) = sub

\* fault: the marker is looked for at the end of the SKU only
EndsWithMarker(product) ==
    /\ Len(product.sku) >= 2
    /\ SubSeq(product.sku, Len(product.sku) - 1, Len(product.sku)) = "-L"

\* const hasLighting = product.sku.includes("-L")
HasLighting(product) == Includes(product.sku, "-L")

\* a pinout slot in a condition: null and 0 are falsy
Truthy(slot) == slot # Null /\ slot # 0

HeatsCircuit1(product, pinout) ==
    product.heatingWattage.circuit1 > 0 /\ Truthy(pinout.heater_relay_1)

\* fault: circuit 2 is tested against the wattage of circuit 1
Circuit2GatedByCircuit1(product, pinout) ==
    product.heatingWattage.circuit1 > 0 /\ Truthy(pinout.heater_relay_2)

HeatsCircuit2(product, pinout) ==
    product.heatingWattage.circuit2 > 0 /\ Truthy(pinout.heater_relay_2)

HeatsCircuit3(product, pinout) ==
    product.heatingWattage.circuit3 > 0 /\ Truthy(pinout.heater_relay_3)

\* "Create heating relays"
NewHeatingRelays(product, pinout) ==
    (IF HeatsCircuit1(product, pinout)
     THEN <<[id |-> "heater_1", pin |-> pinout.heater_relay_1,
             wattage |-> product.heatingWattage.circuit1]>>
     ELSE <<>>)
    \o (IF HeatsCircuit2(product, pinout)
        THEN <<[id |-> "heater_2", pin |-> pinout.heater_relay_2,
                wattage |-> product.heatingWattage.circuit2]>>
        ELSE <<>>)
    \o (IF HeatsCircuit3(product, pinout)
        THEN <<[id |-> "heater_3", pin |-> pinout.heater_relay_3,
                wattage |-> product.heatingWattage.circuit3]>>
        ELSE <<>>)

\* "Create lighting relays (if supported by board and product)"
NewLightingRelays(product, pinout) ==
    (IF HasLighting(product) /\ Truthy(pinout.lights_relay_1)
     THEN <<[id |-> "lights_1", pin |-> pinout.lights_relay_1,
             type |-> "led_strip"]>>
     ELSE <<>>)
    \o (IF HasLighting(product) /\ Truthy(pinout.lights_relay_2)
        THEN <<[id |-> "lights_2", pin |-> pinout.lights_relay_2,
                type |-> "led_ring"]>>
        ELSE <<>>)

NewProduct(product, pinout) ==
    [sku |-> product.sku, variant |-> product.variant,
     name |-> product.productName,
     heatingRelays |-> NewHeatingRelays(product, pinout),
     lightingRelays |-> NewLightingRelays(product, pinout)]

\* some && chain of the loop body gets as far as reading a slot of pinout
ReadsPinout(product) ==
    \/ product.heatingWattage.circuit1 > 0
    \/ product.heatingWattage.circuit2 > 0
    \/ product.heatingWattage.circuit3 > 0
    \/ HasLighting(product)

\* the pinout of an unlisted board, whose slots are never read
NoPinout ==
    [heater_relay_1 |-> Null, heater_relay_2 |-> Null,
     heater_relay_3 |-> Null, lights_relay_1 |-> Null,
     lights_relay_2 |-> Null]

\* if (!boardProducts[boardType]) boardProducts[boardType] = []
WithBoard(mapping, boardType) ==
    IF boardType \in DOMAIN mapping
    THEN mapping
    ELSE mapping @@ (boardType :> <<>>)

\* boardProducts[boardType].push(newProduct)
Push(mapping, boardType, newProduct) ==
    [mapping EXCEPT ![boardType] = Append(@, newProduct)]

\* the body of `for (const boardType of product.compatibleBoards)`;
\* st.threw tells that an earlier pass ended the script
MigrateBoard(st, product, boardType) ==
    LET mapping == WithBoard(st.boardProducts, boardType)
    IN  IF st.threw
        THEN st
        ELSE IF boardType \notin DOMAIN BOARD_PINOUTS
        THEN IF ReadsPinout(product)
             THEN [boardProducts |-> mapping, threw |-> TRUE]
             ELSE [boardProducts |->
                       Push(mapping, boardType,
                            NewProduct(product, NoPinout)),
                   threw |-> FALSE]
        ELSE [boardProducts |->
                  Push(mapping, boardType,
                       NewProduct(product, BOARD_PINOUTS[boardType])),
              threw |-> FALSE]

RECURSIVE MigrateBoards(_, _, _)
MigrateBoards(st, product, boards) ==
    IF boards = <<>>
    THEN st
    ELSE MigrateBoards(MigrateBoard(st, product, Head(boards)), product,
                       Tail(boards))

\* for (const product of skuMappings.products)
RECURSIVE MigrateProducts(_, _)
MigrateProducts(st, products) ==
    IF products = <<>>
    THEN st
    ELSE MigrateProducts(
             MigrateBoards(st, Head(products),
                           Head(products).compatibleBoards),
             Tail(products))

\* boardProducts["IS-3R-WL-V5"] || []
ExampleProducts(mapping) ==
    IF "IS-3R-WL-V5" \in DOMAIN mapping THEN mapping["IS-3R-WL-V5"] ELSE <<>>

ExampleBoard(mapping) ==
    [boardType |-> "IS-3R-WL", boardVersion |-> "V5",
     module |-> [chip |-> "ESP32-C6", flash_size_mb |-> 8],
     aliases |-> <<"HMBL-V3.0-092025">>,
     capabilities |->
        [has_mlx90614 |-> TRUE, has_bme688 |-> FALSE, has_sht41 |-> TRUE,
         num_lm35_sensors |-> 0, has_ld2410_uart |-> TRUE,
         has_ld2410_binary |-> TRUE, num_heating_circuits |-> 3,
         num_lighting_circuits |-> 2, has_pairing_led |-> TRUE,
         has_sensor_led |-> FALSE, has_pairing_button |-> TRUE,
         has_gnd_sw |-> FALSE],
     pinout |->
        [pairing_button_gpio |-> 6, gnd_sw_gpio |-> Null,
         heater_relay_1 |-> 18, heater_relay_2 |-> 19,
         heater_relay_3 |-> 20, lights_relay_1 |-> 4, lights_relay_2 |-> 5,
         i2c_sda |-> 21, i2c_scl |-> 22, i2c_port |-> 0,
         mlx90614_addr |-> 90, bme688_addr |-> 0, sht41_addr |-> 68,
         ld2410_tx |-> 2, ld2410_rx |-> 3, ld2410_out |-> 23,
         ld2410_uart_port |-> 1, lm35_remote |-> Null, lm35_main |-> Null,
         pairing_led |-> 11, sensor_led |-> Null],
     products |-> ExampleProducts(mapping)]

(***************************************************************************)
(* Legacy catalogs: a single product with every zero/non-zero setting of  *)
(* its three circuits, or several products with circuits 1 and 3 powered.  *)
(* A SKU carries the marker "-L" at its end, inside, or not at all.  Board *)
(* identifiers are three listed boards with different pinouts and one that *)
(* the pinout table does not list.                                         *)
(***************************************************************************)
UnlistedBoard == "IS-3R-V2-2025-09-26"

BoardIds == {"IS-3R-WL-V5", "IS-3R-V2", "IS-1R-V2", UnlistedBoard}

SeriesBoardIds == {"IS-3R-WL-V5", "IS-1R-V2", UnlistedBoard}

BoardLists(ids) ==
    UNION {[1..n -> ids] : n \in 0..MaxCompatibleBoards}

Wattages == {0, 1600}

SkuForms(i) ==
    {"IR-HALO-" \o ToString(i),
     "IR-HALO-" \o ToString(i) \o "-L",
     "IR-LITE-" \o ToString(i)}

LegacyProduct(sku, boards, w1, w2, w3) ==
    [productName |-> "Halo", sku |-> sku, variant |-> "standard",
     compatibleBoards |-> boards,
     heatingWattage |-> [circuit1 |-> w1, circuit2 |-> w2, circuit3 |-> w3]]

SingleCatalogs ==
    {<<LegacyProduct(sku, boards, w1, w2, w3)>> :
        sku \in SkuForms(1), boards \in BoardLists(BoardIds),
        w1 \in Wattages, w2 \in Wattages, w3 \in Wattages}

SeriesSku(i) ==
    IF i % 2 = 1
    THEN "IR-HALO-" \o ToString(i) \o "-L"
    ELSE "IR-HALO-" \o ToString(i)

\* the catalog whose i-th product lists the boards lists[i]
SeriesCatalog(lists) ==
    [i \in 1..Len(lists) |->
        LegacyProduct(SeriesSku(i), lists[i], 1600, 0, 1600)]

InitMigration ==
    /\ PinIdle
    /\ SchemaIdle
    /\ \/ \E products \in SingleCatalogs :
             skuMappings = [products |-> products]
       \/ \E n \in 0..MaxLegacyProducts :
             \E lists \in [1..n -> BoardLists(SeriesBoardIds)] :
                skuMappings = [products |-> SeriesCatalog(lists)]
    /\ boardProducts = <<>>
    /\ migration = NotMigrated
    /\ migratedFile = <<>>
    /\ MainIdle

\* migrateProductToBoardProducts(): the loop, then the write of the example
\* board unless the loop threw
MigrateProductToBoardProducts ==
    LET st == MigrateProducts([boardProducts |-> <<>>, threw |-> FALSE],
                              skuMappings.products)
    IN  /\ migration = NotMigrated
        /\ boardProducts' = st.boardProducts
        /\ migration' = [status |-> IF st.threw THEN "threw" ELSE "done"]
        /\ migratedFile' = IF st.threw
                           THEN migratedFile
                           ELSE ExampleBoard(st.boardProducts)
        /\ UNCHANGED skuMappings
        /\ UNCHANGED <<pinVars, schemaVars, mainVars>>

NextMigration == MigrateProductToBoardProducts

SpecMigration == InitMigration /\ [][NextMigration]_vars

(***************************************************************************)
(* The configuration generator (main and its loaders).  An action is the   *)
(* answer to one prompt together with the code that runs up to the next    *)
(* prompt or to the end of the process.  Every prompt can also be          *)
(* cancelled, which rejects its promise with an ExitPromptError.           *)
(***************************************************************************)
CONFIG_VERSION == "1.0.0"

UpperCase == "ABCDEFGHIJKLMNOPQRSTUVWXYZ"
LowerCase == "abcdefghijklmnopqrstuvwxyz"

\* the lower-case letter of each upper-case letter
LowerOf ==
    [c \in {SubSeq(UpperCase, k, k) : k \in 1..26} |->
        LET k == CHOOSE k \in 1..26 : SubSeq(UpperCase, k, k) = c
        IN  SubSeq(LowerCase, k, k)]

LowerChar(c) == IF c \in DOMAIN LowerOf THEN LowerOf[c] ELSE c

\* String.prototype.toLowerCase
RECURSIVE ToLowerCase(_)
ToLowerCase(s) ==
    IF Len(s) = 0
    THEN ""
    ELSE LowerChar(SubSeq(s, 1, 1)) \o ToLowerCase(SubSeq(s, 2, Len(s)))

\* the places of main at which a prompt is pending
Prompts ==
    {"selectProductLine", "selectVariant", "selectBoard", "batchDate",
     "configMethod", "selectSensorBoard", "mlx90614", "envSensor",
     "ld2410Mode", "lm35Count"}

\* the entries of a list that satisfy a test, in the list's order
Filter(xs, Test(_)) ==
    LET kept == {k \in 1..Len(xs) : Test(xs[k])}
    IN  [j \in 1..Cardinality(kept) |->
            xs[CHOOSE k \in kept :
                  Cardinality({m \in kept : m < k}) = j - 1]]

\* Array.prototype.find: the first entry that satisfies the test
Find(xs, Test(_)) == Head(Filter(xs, Test))

\* [...new Set(skuMappings.products.map((p) => p.productName))]
ProductNames == {skuMappings.products[i].productName :
                    i \in 1..Len(skuMappings.products)}

ProductsInLine(name) ==
    Filter(skuMappings.products, LAMBDA p : p.productName = name)

\* skuMappings.products.find(... sku.toLowerCase() === selectedSku...)
SelectedProduct(sku) ==
    Find(skuMappings.products,
         LAMBDA p : ToLowerCase(p.sku) = ToLowerCase(sku))

\* loadBoardConfig(boardId) on a boards/ directory: the exact file name is
\* tried first, then a name equal to it but for the case of its letters
LoadFrom(dir, boardId) ==
    LET exact == Filter(dir, LAMBDA f : f.name = boardId \o ".json")
        anyCase == Filter(dir, LAMBDA f : ToLowerCase(f.name) =
                                          ToLowerCase(boardId) \o ".json")
    IN  IF exact # <<>>
        THEN [found |-> TRUE, file |-> exact[1].content]
        ELSE IF anyCase # <<>>
        THEN [found |-> TRUE, file |-> anyCase[1].content]
        ELSE [found |-> FALSE]

\* loadSensorBoards(): the files that pass SensorBoardSchema, in the order
\* of the directory; the others are skipped with a warning
LoadSensorBoards(dir) ==
    LET valid == Filter(dir, SensorBoardSchema)
    IN  [k \in 1..Len(valid) |-> SensorBoardOutput(valid[k])]

\* fault: the aliases of the board are left out
BoardIdentifiersNoAliases(selectedBoard, boardConfig) ==
    {ToLowerCase(selectedBoard)}

\* [selectedBoard.toLowerCase(), ...(boardConfig.aliases || []).map(...)]
BoardIdentifiers(selectedBoard, boardConfig) ==
    {ToLowerCase(selectedBoard)}
    \cup {ToLowerCase(OrEmpty(boardConfig, "aliases")[k]) :
             k \in 1..Len(OrEmpty(boardConfig, "aliases"))}

IsCompatible(sb, identifiers) ==
    \E k \in 1..Len(sb.compatibleBoards) :
       ToLowerCase(sb.compatibleBoards[k]) \in identifiers

CompatibleSensorBoards(all, identifiers) ==
    Filter(all, LAMBDA sb : IsCompatible(sb, identifiers))

\* rec.key = val
SetKey(rec, key, val) ==
    [k \in DOMAIN rec \cup {key} |-> IF k = key THEN val ELSE rec[k]]

\* rec.key in a condition; an absent key reads as undefined, which is falsy
Flag(rec, key) == key \in DOMAIN rec /\ rec[key]

\* const capabilities = { ...boardConfig.capabilities }
CopyOfCapabilities(boardConfig) ==
    IF "capabilities" \in DOMAIN boardConfig
    THEN boardConfig.capabilities
    ELSE <<>>

\* fault: a flag of the sensor board is or-ed onto the board's flag
MergeFlag(caps, sensorBoard, flag) ==
    SetKey(caps, flag, Flag(caps, flag) \/ sensorBoard.capabilities[flag])

\* capabilities.<flag> = sensorBoard.capabilities.<flag>
OverwriteFlag(caps, sensorBoard, flag) ==
    SetKey(caps, flag, sensorBoard.capabilities[flag])

\* "Apply sensor board capabilities"
ApplySensorBoard(caps, sensorBoard) ==
    OverwriteFlag(
        OverwriteFlag(
            OverwriteFlag(
                OverwriteFlag(
                    OverwriteFlag(caps, sensorBoard, "has_mlx90614"),
                    sensorBoard, "has_bme688"),
                sensorBoard, "has_sht41"),
            sensorBoard, "has_ld2410_uart"),
        sensorBoard, "has_ld2410_binary")

\* the key of a record literal whose value is undefined is left out
KeyOf(rec, key) == IF key \in DOMAIN rec THEN (key :> rec[key]) ELSE <<>>

\* "Build final configuration"
BuildFinalConfig(sel, product, boardConfig, caps) ==
    [configVersion |-> CONFIG_VERSION,
     sku |-> sel.sku,
     boardType |-> boardConfig.boardType,
     boardVersion |-> boardConfig.boardVersion,
     batchDate |-> sel.batchDate,
     module |-> boardConfig.module,
     capabilities |-> caps]
    @@ KeyOf(boardConfig, "pinout")
    @@ KeyOf(product, "heatingWattage")

\* `upload-config ${JSON.stringify(finalConfig)} --force`
OutputOf(config) == <<"upload-config", config, "--force">>

\* the validate function of the batch date prompt
Digits == "0123456789"

IsDigit(c) == \E k \in 1..10 : SubSeq(Digits, k, k) = c

DigitValue(c) == (CHOOSE k \in 1..10 : SubSeq(Digits, k, k) = c) - 1

ValidBatchDate(value) ==
    /\ Len(value) \in {5, 6}
    /\ \A k \in 1..Len(value) : IsDigit(SubSeq(value, k, k))
    /\ LET monthNum == IF Len(value) = 5
                       THEN DigitValue(SubSeq(value, 1, 1))
                       ELSE 10 * DigitValue(SubSeq(value, 1, 1))
                            + DigitValue(SubSeq(value, 2, 2))
       IN  ~(monthNum < 1 \/ monthNum > 12)

(***************************************************************************)
(* The files a run of the generator finds: a catalog of two product lines, *)
(* a boards/ directory with one file, whose name differs from one of the   *)
(* catalog's board identifiers by case only, and a sensor-boards/          *)
(* directory of up to MaxSensorBoards files.  A board file passes          *)
(* BoardConfigSchema and carries the legacy capabilities and pinout keys,  *)
(* or passes it without them, or is a legacy file that fails it.           *)
(***************************************************************************)
BoardFile == "IS-3R-WL-V5-2025-09-26"
BoardAlias == "HMBL-V3.0-092025"
AbsentBoard == "IS-1R-V2-2025-09-26"

MainCatalog ==
    [products |->
        <<LegacyProduct("IR-HALO-1", <<BoardFile, AbsentBoard>>,
                        1600, 0, 1600),
          [productName |-> "Lumo", sku |-> "IR-LUMO-1-L",
           variant |-> "lighting",
           compatibleBoards |-> <<ToLowerCase(BoardFile)>>]>>]

FlagsOf(mlx, bme, sht, uart, binary) ==
    [has_mlx90614 |-> mlx, has_bme688 |-> bme, has_sht41 |-> sht,
     has_ld2410_uart |-> uart, has_ld2410_binary |-> binary]

AllOn == [f \in SensorFlags |-> TRUE]

BoardFlags == {AllOff, AllOn, FlagsOf(TRUE, FALSE, TRUE, TRUE, TRUE)}

SensorBoardFlags ==
    {AllOff, AllOn, FlagsOf(TRUE, TRUE, FALSE, TRUE, FALSE),
     FlagsOf(FALSE, FALSE, TRUE, FALSE, TRUE)}

BoardCapabilities(flags, lm35) ==
    flags @@ [num_lm35_sensors |-> lm35, num_heating_circuits |-> 3,
              num_lighting_circuits |-> 2, has_pairing_led |-> TRUE,
              has_sensor_led |-> FALSE, has_pairing_button |-> TRUE,
              has_gnd_sw |-> FALSE]

PlainBoard == BoardOf(PlainProduct, I2CBus)

LegacyBoard == ExampleBoard(<<>>)

HybridBoard(flags, lm35) ==
    PlainBoard @@ [aliases |-> <<BoardAlias>>,
                   capabilities |-> BoardCapabilities(flags, lm35),
                   pinout |-> LegacyBoard.pinout]

MainBoards ==
    {HybridBoard(flags, lm35) : flags \in BoardFlags, lm35 \in {0, 2}}
    \cup {HybridBoard(AllOff, 1)}
    \cup {PlainBoard, LegacyBoard}

BoardDirs ==
    {<<[name |-> BoardFile \o ".json", content |-> c]>> : c \in MainBoards}

SensorBoardFile(i, flags, boards) ==
    [sku |-> "SB-" \o ToString(i), name |-> "Sensor board",
     compatibleBoards |-> boards, capabilities |-> flags]

\* a file that SensorBoardSchema rejects: has_sht41 is missing
BrokenSensorBoardFile(i) ==
    [sku |-> "SB-" \o ToString(i), name |-> "Sensor board",
     compatibleBoards |-> <<BoardFile>>,
     capabilities |-> [has_mlx90614 |-> TRUE, has_bme688 |-> TRUE,
                       has_ld2410_uart |-> TRUE,
                       has_ld2410_binary |-> TRUE]]

SensorBoardFiles(i) ==
    {SensorBoardFile(i, flags, boards) :
        flags \in SensorBoardFlags,
        boards \in {<<BoardFile>>, <<ToLowerCase(BoardAlias)>>,
                    <<"IS-VP-CB-V8-2025-08-06">>}}
    \cup {BrokenSensorBoardFile(i)}

\* the directories of exactly n files
RECURSIVE SensorBoardDirsOf(_)
SensorBoardDirsOf(n) ==
    IF n = 0
    THEN {<<>>}
    ELSE {Append(dir, f) :
             dir \in SensorBoardDirsOf(n - 1), f \in SensorBoardFiles(n)}

SensorBoardDirs == UNION {SensorBoardDirsOf(n) : n \in 0..MaxSensorBoards}

BatchDateInputs == {"12025", "132025", "2025", "1x025"}

InitMain ==
    /\ board = DefaultBoard
    /\ otherBoard = DefaultBoard
    /\ loaded = NotLoaded
    /\ callArg = <<>>
    /\ earlierPins = {}
    /\ pinUsage = <<>>
    /\ allPins = <<>>
    /\ report = NoReport
    /\ SchemaIdle
    /\ skuMappings = MainCatalog
    /\ boardProducts = <<>>
    /\ migration = NotMigrated
    /\ migratedFile = <<>>
    /\ pc = "selectProductLine"
    /\ answers = <<>>
    /\ capabilities = <<>>
    /\ sensorBoardDir = <<>>
    /\ sensorBoards = <<>>
    /\ applied = NotApplied
    /\ finalConfig = <<>>
    /\ exit = Running
    /\ files = <<>>

\* what no step of main changes
MainFrame ==
    UNCHANGED <<otherBoard, callArg, earlierPins, pinUsage, allPins, report,
                schemaVars, skuMappings, boardProducts, migration,
                migratedFile>>

\* fault: every rejection of main's promise exits with code 1
CatchExitAsFailure(name, reason) == Exited(1, reason)

\* fault: every rejection of main's promise exits with code 0
CatchExitAsSuccess(name, reason) == Exited(0, reason)

\* main().catch: an ExitPromptError exits with code 0, any other error
\* with code 1
CatchExit(name, reason) ==
    Exited(IF name = "ExitPromptError" THEN 0 ELSE 1, reason)

\* fault: the catch block around FinalConfigSchema.parse does not exit
ValidationIgnored(config) == TRUE

\* try { FinalConfigSchema.parse(finalConfig) } catch { process.exit(1) }
ValidationPasses(config) == FinalConfigSchema(config)

\* from "Build final configuration" to the end of main: the validation,
\* the save prompt and the write
Finish(caps) ==
    LET config == BuildFinalConfig(answers, SelectedProduct(answers.sku),
                                   loaded.data, caps)
    IN  /\ capabilities' = caps
        /\ finalConfig' = config
        /\ pc' = "exit"
        /\ IF ValidationPasses(config)
           THEN \E save \in {"yes", "no", "cancel"} :
                   /\ answers' = IF save = "cancel"
                                 THEN answers
                                 ELSE SetKey(answers, "saveToFile",
                                             save = "yes")
                   /\ files' = IF save = "yes"
                               THEN Append(files, OutputOf(config))
                               ELSE files
                   /\ exit' = IF save = "cancel"
                              THEN CatchExit("ExitPromptError", "cancelled")
                              ELSE Exited(0, "done")
           ELSE /\ exit' = Exited(1, "validation")
                /\ UNCHANGED <<answers, files>>

\* "LM35 analog sensors (only if board supports them)"; the read of
\* boardConfig.capabilities.num_lm35_sensors throws a TypeError when the
\* board has no capabilities
AfterSensors(caps) ==
    IF "capabilities" \notin DOMAIN loaded.data
    THEN /\ capabilities' = caps
         /\ pc' = "exit"
         /\ exit' = CatchExit("TypeError", "error")
         /\ UNCHANGED <<answers, finalConfig, files>>
    ELSE IF loaded.data.capabilities.num_lm35_sensors > 0
    THEN /\ capabilities' = caps
         /\ pc' = "lm35Count"
         /\ UNCHANGED <<answers, finalConfig, exit, files>>
    ELSE Finish(SetKey(caps, "num_lm35_sensors", 0))

\* "Step 1: Select product line"
SelectProductLine ==
    /\ pc = "selectProductLine"
    /\ \E name \in ProductNames :
          answers' = SetKey(answers, "productName", name)
    /\ pc' = "selectVariant"
    /\ UNCHANGED <<board, loaded, capabilities, sensorBoards, applied,
                   finalConfig, exit, files>>
    /\ UNCHANGED sensorBoardDir
    /\ MainFrame

\* "Step 2: Select variant within product line"
SelectVariant ==
    /\ pc = "selectVariant"
    /\ \E k \in 1..Len(ProductsInLine(answers.productName)) :
          answers' = SetKey(answers, "sku",
                            ProductsInLine(answers.productName)[k].sku)
    /\ pc' = "selectBoard"
    /\ UNCHANGED <<board, loaded, capabilities, sensorBoards, applied,
                   finalConfig, exit, files>>
    /\ UNCHANGED sensorBoardDir
    /\ MainFrame

\* "Step 3: Select board configuration" and loadBoardConfig(selectedBoard)
SelectBoard ==
    /\ pc = "selectBoard"
    /\ \E k \in 1..Len(SelectedProduct(answers.sku).compatibleBoards),
          dir \in BoardDirs :
          LET selectedBoard ==
                  SelectedProduct(answers.sku).compatibleBoards[k]
              read == LoadFrom(dir, selectedBoard)
              result == IF read.found
                        THEN SchemaParse("Board", read.file)
                        ELSE [status |-> "error"]
          IN  /\ answers' = SetKey(answers, "board", selectedBoard)
              /\ board' = IF read.found THEN read.file ELSE board
              /\ loaded' = result
              /\ IF result.status = "ok"
                 THEN pc' = "batchDate" /\ exit' = exit
                 ELSE pc' = "exit" /\ exit' = CatchExit("Error", "board")
    /\ UNCHANGED <<capabilities, sensorBoards, applied, finalConfig, files>>
    /\ UNCHANGED sensorBoardDir
    /\ MainFrame

\* "Step 3.5: Prompt for batch date"; the prompt returns a value that its
\* validate function accepts
EnterBatchDate ==
    /\ pc = "batchDate"
    /\ \E value \in BatchDateInputs :
          /\ ValidBatchDate(value)
          /\ answers' = SetKey(answers, "batchDate", value)
    /\ pc' = "configMethod"
    /\ UNCHANGED <<board, loaded, capabilities, sensorBoards, applied,
                   finalConfig, exit, files>>
    /\ UNCHANGED sensorBoardDir
    /\ MainFrame

\* "Step 4: Choose sensor configuration method", the copy of the board's
\* capabilities and, for "sku", the load and the filter of the sensor boards
ChooseConfigMethod ==
    /\ pc = "configMethod"
    /\ capabilities' = CopyOfCapabilities(loaded.data)
    /\ \E configMethod \in {"sku", "manual"} :
          /\ answers' = SetKey(answers, "configMethod", configMethod)
          /\ IF configMethod = "sku"
             THEN LET boardIdentifiers ==
                          BoardIdentifiers(answers.board, loaded.data)
                  IN  \E dir \in SensorBoardDirs :
                         LET compatible ==
                                 CompatibleSensorBoards(
                                     LoadSensorBoards(dir), boardIdentifiers)
                         IN  /\ sensorBoardDir' = dir
                             /\ sensorBoards' = compatible
                             /\ pc' = IF compatible = <<>>
                                      THEN "mlx90614"
                                      ELSE "selectSensorBoard"
             ELSE /\ sensorBoards' = <<>>
                  /\ UNCHANGED sensorBoardDir
                  /\ pc' = "mlx90614"
    /\ UNCHANGED <<board, loaded, applied, finalConfig, exit, files>>
    /\ MainFrame

\* "Select sensor board" and "Apply sensor board capabilities"
SelectSensorBoard ==
    /\ pc = "selectSensorBoard"
    /\ \E k \in 1..Len(sensorBoards) :
          LET selectedSensorBoard == sensorBoards[k].sku
              sensorBoard ==
                  Find(sensorBoards,
                       LAMBDA sb : ToLowerCase(sb.sku) =
                                   ToLowerCase(selectedSensorBoard))
          IN  /\ applied' = [status |-> "applied",
                             sensorBoard |-> sensorBoard]
              /\ AfterSensors(ApplySensorBoard(capabilities, sensorBoard))
    /\ sensorBoards' = <<>>
    /\ UNCHANGED <<board, loaded>>
    /\ UNCHANGED sensorBoardDir
    /\ MainFrame

\* "MLX90614 IR sensor"
ConfirmMlx90614 ==
    /\ pc = "mlx90614"
    /\ \E connected \in BOOLEAN :
          capabilities' = SetKey(capabilities, "has_mlx90614", connected)
    /\ pc' = "envSensor"
    /\ UNCHANGED <<board, loaded, answers, sensorBoards, applied,
                   finalConfig, exit, files>>
    /\ UNCHANGED sensorBoardDir
    /\ MainFrame

\* "Environmental sensor selection"
SelectEnvSensor ==
    /\ pc = "envSensor"
    /\ \E envSensor \in {"bme688", "sht41", "none"} :
          capabilities' =
             SetKey(SetKey(capabilities, "has_bme688", envSensor = "bme688"),
                    "has_sht41", envSensor = "sht41")
    /\ pc' = "ld2410Mode"
    /\ UNCHANGED <<board, loaded, answers, sensorBoards, applied,
                   finalConfig, exit, files>>
    /\ UNCHANGED sensorBoardDir
    /\ MainFrame

\* "LD2410 presence sensor"
SelectLd2410Mode ==
    /\ pc = "ld2410Mode"
    /\ \E ld2410Mode \in {"both", "uart", "binary", "none"} :
          AfterSensors(
              SetKey(SetKey(capabilities, "has_ld2410_uart",
                            ld2410Mode = "uart" \/ ld2410Mode = "both"),
                     "has_ld2410_binary",
                     ld2410Mode = "binary" \/ ld2410Mode = "both"))
    /\ UNCHANGED <<board, loaded, sensorBoards, applied>>
    /\ UNCHANGED sensorBoardDir
    /\ MainFrame

\* "How many LM35 analog temperature sensors are connected?"
SelectLm35Count ==
    /\ pc = "lm35Count"
    /\ \E lm35Count \in {0, 1, 2} :
          Finish(SetKey(capabilities, "num_lm35_sensors", lm35Count))
    /\ UNCHANGED <<board, loaded, sensorBoards, applied>>
    /\ UNCHANGED sensorBoardDir
    /\ MainFrame

\* a prompt is cancelled: main().catch sees an ExitPromptError
CancelPrompt ==
    /\ pc \in Prompts
    /\ pc' = "exit"
    /\ exit' = CatchExit("ExitPromptError", "cancelled")
    /\ UNCHANGED <<board, loaded, answers, capabilities, sensorBoards,
                   applied, finalConfig, files>>
    /\ UNCHANGED sensorBoardDir
    /\ MainFrame

NextMain ==
    \/ SelectProductLine
    \/ SelectVariant
    \/ SelectBoard
    \/ EnterBatchDate
    \/ ChooseConfigMethod
    \/ SelectSensorBoard
    \/ ConfirmMlx90614
    \/ SelectEnvSensor
    \/ SelectLd2410Mode
    \/ SelectLm35Count
    \/ CancelPrompt

SpecMain == InitMain /\ [][NextMain]_vars

(***************************************************************************)
(* Boards whose I2C sensors carry keys their schema does not declare: a    *)
(* product with one heating relay and, on the product or on the board, one *)
(* I2C sensor that is plain or has one of the keys pin, tx_pin, rx_pin,    *)
(* out_pin with a number.  The board is loaded and its products are        *)
(* reported as in Spec.                                                    *)
(***************************************************************************)
I2CTypes == {"mlx90614", "bme688", "sht41"}

PinKeys == {"pin", "tx_pin", "rx_pin", "out_pin"}

I2CSensorOf(type) == [id |-> type, type |-> type, address |-> 90]

ExtraKeySensors ==
    {I2CSensorOf(t) : t \in I2CTypes}
    \cup {I2CSensorOf(t) @@ (key :> p) :
             t \in I2CTypes, key \in PinKeys, p \in Pins}

InitExtraKeys ==
    /\ \E sensor \in ExtraKeySensors, p \in Pins, owner \in {0, 1} :
          board = MkBoard(
                      <<[owner |-> 1,
                         comp |-> [cat |-> "heating",
                                   item |-> HeatingRelay(1, p)]],
                        [owner |-> owner,
                         comp |-> [cat |-> "sensor", item |-> sensor]]>>,
                      1, I2CBus)
    /\ otherBoard = DefaultBoard
    /\ loaded = NotLoaded
    /\ callArg = <<>>
    /\ earlierPins = {}
    /\ pinUsage = <<>>
    /\ allPins = <<>>
    /\ report = NoReport
    /\ SchemaIdle
    /\ MigrationIdle
    /\ MainIdle

SpecExtraKeys == InitExtraKeys /\ [][Next]_vars

(***************************************************************************)
(* Vocabulary of the properties.  A claim site is a place of a product     *)
(* list that names a GPIO pin: <<i, c, k, f>> is the f-th pin field of the  *)
(* k-th entry of the c-th component list of the i-th product.  Sites are   *)
(* counted as sets; no walk is involved.                                   *)
(***************************************************************************)
CategoryKeys ==
    <<"heatingRelays", "lightingRelays", "sensors", "leds", "buttons">>
CategoryNames == <<"heating", "lighting", "sensor", "led", "button">>
PinFields == <<"pin", "tx_pin", "rx_pin", "out_pin">>
PinSuffixes == <<"", ":tx", ":rx", ":out">>

\* the c-th component list of a record, empty when the key is absent
ListOf(owner, c) ==
    IF CategoryKeys[c] \in DOMAIN owner THEN owner[CategoryKeys[c]] ELSE <<>>

\* the sites of one record that owns the component lists from..5; only a
\* sensor has pin fields other than `pin`
SitesOf(owner, i, from) ==
    UNION {UNION {{<<i, c, k, f>> :
                      f \in {g \in 1..4 :
                                /\ PinFields[g] \in DOMAIN ListOf(owner, c)[k]
                                /\ (g > 1 => c = 3)}} :
                  k \in 1..Len(ListOf(owner, c))} :
           c \in from..5}

ClaimSites(products) ==
    UNION {SitesOf(products[i], i, 1) : i \in 1..Len(products)}

SitePin(products, site) ==
    products[site[1]][CategoryKeys[site[2]]][site[3]][PinFields[site[4]]]

SiteSku(products, site) == products[site[1]].sku

SiteLabel(products, site) ==
    products[site[1]].sku \o ":" \o CategoryNames[site[2]] \o ":"
    \o products[site[1]][CategoryKeys[site[2]]][site[3]].id
    \o PinSuffixes[site[4]]

\* among the given sites of a product list, those that name pin p
SitesAt(products, sites, p) == {site \in sites : SitePin(products, site) = p}

PinsAt(products, sites) == {SitePin(products, site) : site \in sites}

SitesOn(products, p) == SitesAt(products, ClaimSites(products), p)

ClaimCount(products, p) == Cardinality(SitesOn(products, p))

ClaimedPins(products) == PinsAt(products, ClaimSites(products))

\* walk order: products in list order, then category, entry, pin field
Before(s, t) ==
    \E n \in 1..4 : s[n] < t[n] /\ \A m \in 1..(n - 1) : s[m] = t[m]

\* the sites of a set, in walk order
RECURSIVE InWalkOrder(_)
InWalkOrder(sites) ==
    IF sites = {} THEN <<>>
    ELSE LET first == CHOOSE s \in sites :
                         \A t \in sites \ {s} : Before(s, t)
         IN  <<first>> \o InWalkOrder(sites \ {first})

\* the earliest site of a non-empty set
First(sites) == CHOOSE s \in sites : \A t \in sites \ {s} : Before(s, t)

\* the sites of the board's shared sensors, LEDs and buttons (owner 0)
SharedSites(b) == SitesOf(b, 0, 3)

SharedSitePin(b, site) ==
    b[CategoryKeys[site[2]]][site[3]][PinFields[site[4]]]

SharedPinSet(b) == {SharedSitePin(b, site) : site \in SharedSites(b)}

\* some pin is named twice under the board, i2c aside
HasRepeatedPin(b) ==
    LET shared == SharedSites(b)
        sites == ClaimSites(b.products)
    IN  \/ \E s, t \in shared :
              s # t /\ SharedSitePin(b, s) = SharedSitePin(b, t)
        \/ \E s, t \in sites :
              s # t /\ SitePin(b.products, s) = SitePin(b.products, t)
        \/ \E s \in shared, t \in sites :
              SharedSitePin(b, s) = SitePin(b.products, t)

Returned == report.status = "returned"

ConflictPins == {report.conflicts[k].pin : k \in 1..Len(report.conflicts)}

Range(xs) == {xs[k] : k \in 1..Len(xs)}

(***************************************************************************)
(* C1: after validatePinUniqueness returns, isValid is true exactly when   *)
(* conflicts is empty, and both hold whenever no pin is claimed twice by   *)
(* the components of the products passed.                                  *)
(***************************************************************************)
ValidIffNoConflicts ==
    Returned =>
        /\ report.isValid <=> (report.conflicts = <<>>)
        /\ LET sites == ClaimSites(callArg)
           IN  (\A s, t \in sites :
                   s # t => SitePin(callArg, s) # SitePin(callArg, t))
                  => report.isValid /\ report.conflicts = <<>>

\* two products with components, all on distinct pins, reported valid
DisjointPinsReported ==
    /\ Returned
    /\ Len(callArg) = 2
    /\ Cardinality(ClaimSites(callArg)) >= 2
    /\ \A i \in 1..2 : SitesOf(callArg[i], i, 1) # {}
    /\ \A p \in ClaimedPins(callArg) : ClaimCount(callArg, p) = 1
    /\ report.isValid

(***************************************************************************)
(* C2: a pin claimed by two different products has exactly one conflict    *)
(* entry; the entry's products lists each claiming SKU once, and its       *)
(* components holds the label sku:category:id[:tx|:rx|:out] of every claim *)
(* of the pin, in walk order.                                              *)
(***************************************************************************)
SharedPinHasOneEntry ==
    Returned =>
        LET all == ClaimSites(callArg)
        IN  \A p \in PinsAt(callArg, all) :
              LET on == SitesAt(callArg, all, p)
                  sites == InWalkOrder(on)
              IN  (\E s, t \in on : s[1] # t[1]) =>
                    /\ Cardinality({k \in 1..Len(report.conflicts) :
                                       report.conflicts[k].pin = p}) = 1
                    /\ \A k \in 1..Len(report.conflicts) :
                          report.conflicts[k].pin = p =>
                            LET entry == report.conflicts[k]
                            IN  /\ Range(entry.products) =
                                     {SiteSku(callArg, site) : site \in on}
                                /\ Len(entry.products) =
                                     Cardinality(Range(entry.products))
                                /\ entry.components =
                                     [n \in 1..Len(sites) |->
                                         SiteLabel(callArg, sites[n])]

\* a pin claimed twice by one product and once by another: three labels,
\* one of them of a UART sub-pin, and two SKUs
TwoProductsShareAPin ==
    /\ Returned
    /\ \E k \in 1..Len(report.conflicts) :
          /\ Len(report.conflicts[k].products) = 2
          /\ Len(report.conflicts[k].components) = 3
          /\ \E s \in SitesOn(callArg, report.conflicts[k].pin) : s[4] > 1

(***************************************************************************)
(* C3: the conflicts list holds exactly the pins with two or more claims,  *)
(* each once; a pin claimed twice inside one product is among them.        *)
(***************************************************************************)
ConflictsAreMultiplyClaimedPins ==
    Returned =>
        /\ LET sites == ClaimSites(callArg)
           IN  ConflictPins =
                  {p \in PinsAt(callArg, sites) :
                      Cardinality(SitesAt(callArg, sites, p)) >= 2}
        /\ Cardinality(ConflictPins) = Len(report.conflicts)

\* a conflict whose claims all come from one product
ConflictInsideOneProduct ==
    /\ Returned
    /\ \E k \in 1..Len(report.conflicts) :
          /\ Len(report.conflicts[k].products) = 1
          /\ \A s, t \in SitesOn(callArg, report.conflicts[k].pin) :
                s[1] = t[1]

(***************************************************************************)
(* C4: BoardConfigSchema rejects a board in which a pin is named more than *)
(* once among the shared sensors, LEDs, buttons and the components of the  *)
(* products, and accepts a board of the right shape in which these pins    *)
(* are pairwise distinct.                                                  *)
(***************************************************************************)
BoardPinNamespace(b) == SharedPinSet(b) \cup ClaimedPins(b.products)

SchemaRejectsDuplicatePins ==
    loaded.status # "none" =>
        /\ HasRepeatedPin(board) => loaded.status = "error"
        /\ (BoardShape(board) /\ ~HasRepeatedPin(board))
              => loaded.status = "ok" /\ loaded.data = board

\* a board of the right shape rejected for a pin that a shared peripheral
\* and a product component both name
SharedPinClashRejected ==
    /\ loaded.status = "error"
    /\ BoardShape(board)
    /\ \E p \in SharedPinSet(board) : ClaimCount(board.products, p) = 1

(***************************************************************************)
(* C5: a board in which i2c.sda or i2c.scl equals the pin of a relay,      *)
(* sensor, LED or button is rejected by board validation.                  *)
(***************************************************************************)
I2CPinsInNamespace ==
    (/\ loaded.status # "none"
     /\ {board.i2c.sda, board.i2c.scl} \cap BoardPinNamespace(board) # {})
        => loaded.status = "error"

(***************************************************************************)
(* C6: the detector's walk covers the shared sensors, LEDs and buttons of  *)
(* the board: a pin of a shared peripheral that a product component also   *)
(* claims is in conflicts, and every shared peripheral pin is in allPins.  *)
(* Stated for boards of the right shape, as the catalog holds them.        *)
(***************************************************************************)
DetectorCoversSharedPeripherals ==
    (Returned /\ callArg = board.products /\ BoardShape(board)) =>
        /\ \A p \in SharedPinSet(board) :
              ClaimCount(board.products, p) >= 1
                 => p \in ConflictPins /\ ~report.isValid
        /\ SharedPinSet(board) \subseteq Range(report.allPins)

(***************************************************************************)
(* C7: when the detector finds the products of a board invalid, the schema *)
(* rejects the board; for a board of the right shape without shared        *)
(* sensors, LEDs and buttons the schema accepts exactly when the detector  *)
(* finds the products valid.                                               *)
(***************************************************************************)
RefinementAgreesWithDetector ==
    (Returned /\ callArg = board.products /\ loaded.status # "none") =>
        /\ ~report.isValid => loaded.status = "error"
        /\ (SharedSites(board) = {} /\ BoardShape(board))
              => (loaded.status = "ok" <=> report.isValid)

\* a board of the right shape without shared peripherals that both the
\* detector and the schema turn down
BothRejectProductClash ==
    /\ Returned /\ callArg = board.products
    /\ SharedSites(board) = {} /\ BoardShape(board)
    /\ ~report.isValid
    /\ loaded.status = "error"

(***************************************************************************)
(* C8: conflicts are listed in the order in which their pins were first    *)
(* claimed during the walk, not by pin number.                             *)
(***************************************************************************)
ConflictsInFirstClaimOrder ==
    Returned =>
        LET sites == ClaimSites(callArg)
            FirstClaim(p) == First(SitesAt(callArg, sites, p))
        IN  \A j, k \in 1..Len(report.conflicts) :
                j < k => Before(FirstClaim(report.conflicts[j].pin),
                                FirstClaim(report.conflicts[k].pin))

\* two conflicts, the first on the numerically larger pin
LargerPinConflictsFirst ==
    /\ Returned
    /\ Len(report.conflicts) >= 2
    /\ report.conflicts[1].pin > report.conflicts[2].pin

(***************************************************************************)
(* C9: the returned allPins is strictly ascending by number and, as a set, *)
(* is the set of pins claimed during the walk.                             *)
(***************************************************************************)
AllPinsSortedSet ==
    Returned =>
        /\ \A j, k \in 1..Len(report.allPins) :
              j < k => report.allPins[j] < report.allPins[k]
        /\ Range(report.allPins) = ClaimedPins(callArg)

\* the walk met the pins out of order and one of them twice
UnsortedRepeatedClaims ==
    /\ Returned
    /\ \E j, k \in 1..Len(allPins) : j < k /\ allPins[j] > allPins[k]
    /\ \E j, k \in 1..Len(allPins) : j # k /\ allPins[j] = allPins[k]
    /\ Len(report.allPins) >= 2

(***************************************************************************)
(* C10: a report depends only on the list passed to the call: each         *)
(* conflict is a pin claimed at least twice in that list, with as many     *)
(* labels as the list has claims of it, and allPins holds pins of that     *)
(* list only, whatever the earlier calls were given.  A pin that two       *)
(* boards each claim once is a conflict in neither report.                 *)
(***************************************************************************)
ReportScopedToCall ==
    Returned =>
        LET sites == ClaimSites(callArg)
            Count(p) == Cardinality(SitesAt(callArg, sites, p))
        IN  /\ \A k \in 1..Len(report.conflicts) :
                  /\ Count(report.conflicts[k].pin) >= 2
                  /\ Len(report.conflicts[k].components) =
                        Count(report.conflicts[k].pin)
            /\ Range(report.allPins) \subseteq PinsAt(callArg, sites)
            /\ \A p \in earlierPins : Count(p) <= 1 => p \notin ConflictPins

\* the second board reuses a pin of the first board, checked before it,
\* and its report is clean
PinReusedAcrossBoards ==
    /\ Returned
    /\ callArg = otherBoard.products
    /\ board.products # otherBoard.products
    /\ \E p \in earlierPins :
          /\ ClaimCount(board.products, p) = 1
          /\ ClaimCount(otherBoard.products, p) = 1
    /\ report.isValid

(***************************************************************************)
(* Properties of the schemas.                                              *)
(***************************************************************************)
\* the products a record of the named schema carries
ProductsOf(name, v) ==
    CASE name = "Product" -> <<v>>
      [] name = "Board" -> v.products
      [] name = "FinalConfig" -> <<v.product>>
      [] name = "SensorBoard" -> <<>>

ComponentCount(p) == Cardinality({c \in 1..5 : ListOf(p, c) # <<>>})

\* C11: a product whose heatingRelays, lightingRelays, sensors, leds and
\* buttons are all empty is rejected, and every accepted product has at most
\* 3 heating relays, at most 2 lighting relays and at least one component.
ProductSchemaBounds ==
    LET products == ProductsOf(schema, candidate)
    IN  parsed.status # "none" =>
            /\ (\E i \in 1..Len(products) : ComponentCount(products[i]) = 0)
                  => parsed.status = "error"
            /\ parsed.status = "ok" =>
                  \A i \in 1..Len(products) :
                     /\ Len(products[i].heatingRelays) <= 3
                     /\ Len(products[i].lightingRelays) <= 2
                     /\ \E c \in 1..5 : Len(ListOf(products[i], c)) >= 1

\* a product with five empty lists was handed to ProductSchema and rejected
EmptyProductRejected ==
    /\ schema = "Product"
    /\ \A c \in 1..5 : ListOf(candidate, c) = <<>>
    /\ parsed.status = "error"

\* C12: an accepted final configuration assigns no GPIO pin twice within
\* its product: no two pin fields of its relays, sensors, LEDs and buttons
\* hold the same number.
FinalConfigPinsDistinct ==
    (schema = "FinalConfig" /\ parsed.status = "ok") =>
        LET products == <<parsed.data.product>>
            sites == ClaimSites(products)
        IN  \A s \in sites, t \in sites :
               s # t => SitePin(products, s) # SitePin(products, t)

\* C13: in an accepted board, product or final configuration every GPIO pin
\* field is a positive integer: relay, analog sensor, UART tx/rx/out, LED
\* and button pins, and the I2C sda and scl.
AcceptedPinsPositive ==
    (schema \in {"Product", "Board", "FinalConfig"}
     /\ parsed.status = "ok") =>
        LET products == ProductsOf(schema, parsed.data)
        IN  /\ \A s \in ClaimSites(products) : SitePin(products, s) > 0
            /\ schema # "Product" =>
                  parsed.data.i2c.sda > 0 /\ parsed.data.i2c.scl > 0

\* C14: parse of an accepted record returns a record equal to the input,
\* undeclared keys included, and parsing that result again succeeds with
\* the same result.
ParseIsIdentity ==
    /\ parsed.status = "ok" => parsed.data = candidate
    /\ reparsed.status # "none" => reparsed = parsed

\* a final configuration with undeclared keys went through parse twice
NotedRecordParsedTwice ==
    /\ schema = "FinalConfig"
    /\ "note" \in DOMAIN candidate
    /\ candidate.product.sensors # <<>>
    /\ "note" \in DOMAIN candidate.product.sensors[1]
    /\ reparsed.status = "ok"

(***************************************************************************)
(* Properties of the migration.                                            *)
(***************************************************************************)
Migrated == migration.status # "none"

LegacyProducts == skuMappings.products

\* the value the pinout table gives a slot of a board; an unlisted board
\* defines no pin
Slot(b, name) ==
    IF b \in DOMAIN BOARD_PINOUTS THEN BOARD_PINOUTS[b][name] ELSE Null

CircuitKeys == <<"circuit1", "circuit2", "circuit3">>
HeaterSlots == <<"heater_relay_1", "heater_relay_2", "heater_relay_3">>
HeaterIds == <<"heater_1", "heater_2", "heater_3">>
LightSlots == <<"lights_relay_1", "lights_relay_2">>
LightIds == <<"lights_1", "lights_2">>

\* the places of board b's list that hold a product made from P
EntriesFor(P, b) ==
    IF b \in DOMAIN boardProducts
    THEN {k \in 1..Len(boardProducts[b]) :
             /\ boardProducts[b][k].sku = P.sku
             /\ boardProducts[b][k].variant = P.variant
             /\ boardProducts[b][k].name = P.productName}
    ELSE {}

\* the places where relay `id` stands in a relay list
PlacesOf(relays, id) == {j \in 1..Len(relays) : relays[j].id = id}

SourceOf(e) ==
    CHOOSE i \in 1..Len(LegacyProducts) : LegacyProducts[i].sku = e.sku

\* C17: once the migration has run, every legacy product P has, for every
\* entry B of its compatibleBoards, exactly one product with P's sku,
\* variant and name in the list of board B, and each board's list holds
\* its products in the order of the legacy product list.
OneProductPerCompatibleBoard ==
    Migrated =>
        /\ \A i \in 1..Len(LegacyProducts) :
              \A b \in Range(LegacyProducts[i].compatibleBoards) :
                 LET P == LegacyProducts[i]
                 IN  Cardinality(EntriesFor(P, b)) =
                        Cardinality({j \in 1..Len(P.compatibleBoards) :
                                        P.compatibleBoards[j] = b})
        /\ \A b \in DOMAIN boardProducts :
              \A k \in 1..Len(boardProducts[b]), l \in 1..Len(boardProducts[b]) :
                 k < l => SourceOf(boardProducts[b][k])
                             <= SourceOf(boardProducts[b][l])

(***************************************************************************)
(* Properties of the configuration generator.                              *)
(***************************************************************************)
Assembled == finalConfig # <<>>

\* C18: once a sensor board has been applied, each of the five sensor flags
\* of main's capabilities, and of the final configuration when one is
\* assembled, equals the sensor board's value whatever the board's value
\* was, and the capabilities of the loaded board are those of its file.
SensorBoardOverwritesFlags ==
    applied.status = "applied" =>
        /\ \A f \in SensorFlags :
              /\ capabilities[f] = applied.sensorBoard.capabilities[f]
              /\ Assembled =>
                    finalConfig.capabilities[f] =
                       applied.sensorBoard.capabilities[f]
        /\ "capabilities" \in DOMAIN board =>
              loaded.data.capabilities = board.capabilities

\* a board with has_bme688 false and has_sht41 true got a sensor board with
\* has_bme688 true and has_sht41 false, and the final configuration has
\* true and false
FlagsFlippedBySensorBoard ==
    /\ applied.status = "applied"
    /\ Assembled
    /\ "capabilities" \in DOMAIN board
    /\ ~board.capabilities.has_bme688 /\ board.capabilities.has_sht41
    /\ applied.sensorBoard.capabilities.has_bme688
    /\ ~applied.sensorBoard.capabilities.has_sht41
    /\ finalConfig.capabilities.has_bme688
    /\ ~finalConfig.capabilities.has_sht41

\* C19: no assembled final configuration has has_bme688 and has_sht41 both
\* true, whether the sensors came from a sensor board or from the manual
\* three-way choice.
OneEnvironmentalSensor ==
    Assembled =>
        ~(/\ Flag(finalConfig.capabilities, "has_bme688")
          /\ Flag(finalConfig.capabilities, "has_sht41"))

\* C20: a file is written only with a final configuration that passed
\* FinalConfigSchema and after the save prompt was answered yes, and a run
\* that ended by a cancelled prompt, a board that was not found or not
\* valid, an error or a failed final validation has written no file.
WrittenOnlyWhenValidAndConfirmed ==
    /\ files # <<>> =>
          /\ Assembled
          /\ FinalConfigSchema(finalConfig)
          /\ Flag(answers, "saveToFile")
          /\ files = <<OutputOf(finalConfig)>>
    /\ (exit.status = "exited" /\ exit.reason # "done") => files = <<>>

\* a run assembled a final configuration, failed its validation and ended
\* with exit code 1 and no file
InvalidConfigNotWritten ==
    /\ Assembled
    /\ exit = Exited(1, "validation")
    /\ files = <<>>

\* C21: whichever prompt is pending, a step that cancels it ends the run
\* with exit code 0: the process has exited, the code is zero and the run
\* is at its end, with no file written by that step.
CancelExitsZero ==
    [][(/\ pc \in Prompts
        /\ exit'.status = "exited"
        /\ exit'.reason = "cancelled")
       => (exit'.code = 0 /\ pc' = "exit" /\ files' = files)]_vars

\* a run answered the batch date prompt, was cancelled at the prompt for
\* the sensor configuration method and ended with exit code 0
CancelledAtConfigMethod ==
    /\ "batchDate" \in DOMAIN answers
    /\ "configMethod" \notin DOMAIN answers
    /\ exit = Exited(0, "cancelled")

\* C22 as stated: a run that ended on a failed validation of the final
\* configuration, on a board that was not found or not valid, or on a
\* cancelled prompt has a non-zero exit code, and a run that completed
\* normally has exit code 0.
FatalErrorsExitNonZero ==
    exit.status = "exited" =>
        /\ exit.reason \in {"validation", "board", "cancelled"} =>
              exit.code # 0
        /\ exit.reason = "done" => exit.code = 0

\* C22: a run that ended on a failed validation of the final
\* configuration, on a board that was not found or not valid, or on any
\* other error has exit code 1; a run that ended on a cancelled prompt or
\* completed normally has exit code 0.
FailuresExitNonZero ==
    exit.status = "exited" =>
        /\ exit.reason \in {"validation", "board", "error"} => exit.code = 1
        /\ exit.reason \in {"cancelled", "done"} => exit.code = 0

\* the selected board has no file in boards/ and the run ended with exit
\* code 1 before any later prompt
MissingBoardExitsOne ==
    /\ "board" \in DOMAIN answers
    /\ answers.board = AbsentBoard
    /\ loaded.status = "error"
    /\ "batchDate" \notin DOMAIN answers
    /\ exit = Exited(1, "board")

\* the names under which the selected board is known: the identifier the
\* user selected and the aliases of the loaded board
KnownAs ==
    {answers.board}
    \cup (IF "aliases" \in DOMAIN loaded.data
          THEN Range(loaded.data.aliases)
          ELSE {})

\* the places in sensor-boards/ of the files that pass SensorBoardSchema
\* and name the selected board, whatever the case of the letters
OfferableFiles ==
    LET names == {ToLowerCase(id) : id \in KnownAs}
    IN  {k \in 1..Len(sensorBoardDir) :
            /\ SensorBoardSchema(sensorBoardDir[k])
            /\ \E c \in Range(sensorBoardDir[k].compatibleBoards) :
                  ToLowerCase(c) \in names}

SkuMethodChosen ==
    "configMethod" \in DOMAIN answers /\ answers.configMethod = "sku"

ManualPrompts == {"mlx90614", "envSensor", "ld2410Mode"}

\* C23: at the sensor board prompt the choices are the offerable files of
\* sensor-boards/, each once and in the order of the directory, and there is
\* at least one; when the method "sku" was chosen and no file is
\* offerable, no sensor board is offered or applied and the manual prompts
\* follow; when one is offerable the manual prompts are not asked.
OfferedSensorBoardsAreTheCompatibleOnes ==
    /\ pc = "selectSensorBoard" => SkuMethodChosen
    /\ SkuMethodChosen =>
          LET offerable == OfferableFiles
          IN  /\ pc = "selectSensorBoard" =>
                    /\ offerable # {}
                    /\ Len(sensorBoards) = Cardinality(offerable)
                    /\ \A k \in offerable :
                          \E j \in 1..Len(sensorBoards) :
                             /\ sensorBoards[j] = sensorBoardDir[k]
                             /\ j = Cardinality({m \in offerable : m =< k})
              /\ offerable = {} =>
                    pc # "selectSensorBoard" /\ applied = NotApplied
              /\ offerable # {} => pc \notin ManualPrompts
              /\ pc \in ManualPrompts => applied = NotApplied

\* the board was selected in lower case; of two files in sensor-boards/ the
\* first names the board's file but fails the schema and the second names
\* the board's alias in lower case: the second alone is offered
OnlyValidAliasMatchOffered ==
    /\ pc = "selectSensorBoard"
    /\ answers.board # BoardFile
    /\ Len(sensorBoardDir) = 2
    /\ ~SensorBoardSchema(sensorBoardDir[1])
    /\ sensorBoardDir[1].compatibleBoards = <<BoardFile>>
    /\ sensorBoardDir[2].compatibleBoards = <<ToLowerCase(BoardAlias)>>
    /\ sensorBoards = <<sensorBoardDir[2]>>

(***************************************************************************)
(* Properties of the pin walks on sensors with undeclared keys.            *)
(***************************************************************************)
\* a sensor as a walk that dispatches on the type would see it: an I2C
\* sensor without the four pin keys, any other sensor as it is
WithoutPinKeys(sensor) ==
    IF sensor.type \in I2CTypes
    THEN [k \in DOMAIN sensor \ PinKeys |-> sensor[k]]
    ELSE sensor

SensorsWithoutPinKeys(xs) == [k \in 1..Len(xs) |-> WithoutPinKeys(xs[k])]

ProductsWithoutPinKeys(products) ==
    [i \in 1..Len(products) |->
        [products[i] EXCEPT !.sensors = SensorsWithoutPinKeys(@)]]

BoardWithoutPinKeys(b) ==
    [k \in DOMAIN b |->
        IF k = "sensors" THEN SensorsWithoutPinKeys(b.sensors)
        ELSE IF k = "products" THEN ProductsWithoutPinKeys(b.products)
        ELSE b[k]]

\* C24: an I2C sensor contributes no pin claim, whatever undeclared keys
\* its record has: the report of validatePinUniqueness and the verdict of
\* BoardConfigSchema are those of the same input with the keys pin,
\* tx_pin, rx_pin and out_pin taken off its I2C sensors.
I2CSensorsClaimNoPins ==
    /\ Returned =>
          report = validatePinUniqueness(ProductsWithoutPinKeys(callArg)).result
    /\ loaded.status # "none" =>
          ((loaded.status = "ok") <=>
              BoardConfigSchema(BoardWithoutPinKeys(board)))

(***************************************************************************)
(* Properties that relate the migration and the generator to the schemas.  *)
(***************************************************************************)
\* C25: every product in the migration's mapping passes ProductSchema: it
\* has every key the schema requires, sensors, leds and buttons included,
\* its lighting relays have one of the types dimmable, rgb, warmth and
\* regular, and it has at least one component.
MigratedProductsPassProductSchema ==
    \A b \in DOMAIN boardProducts :
       \A k \in 1..Len(boardProducts[b]) :
          ProductSchema(boardProducts[b][k])

\* C26: the record main assembles passes FinalConfigSchema, and the run
\* that assembled it does not end in the validation-failure branch.
AssembledConfigPassesSchema ==
    Assembled =>
        /\ FinalConfigSchema(finalConfig)
        /\ ~(exit.status = "exited" /\ exit.reason = "validation")

\* C27: in an assembled final configuration num_lm35_sensors is at most
\* the num_lm35_sensors of the selected board's file, and is 0 when the
\* board declares 0.
Lm35CountWithinBoard ==
    Assembled =>
        /\ finalConfig.capabilities.num_lm35_sensors
              =< loaded.data.capabilities.num_lm35_sensors
        /\ loaded.data.capabilities.num_lm35_sensors = 0 =>
              finalConfig.capabilities.num_lm35_sensors = 0

====
